---- MODULE Spec2Model ----
(***************************************************************************)
(* The event-driven notification pipeline of the notification service:     *)
(* two priority consumer groups, the event router                          *)
(* (NotificationProcessorService), the four domain event processors with   *)
(* their retry/backoff loops, and the dead-letter router                   *)
(* (DeadLetterQueueHandler).  The notification store, the identity lookup, *)
(* the mail transport and the broker publisher are collaborators whose     *)
(* outcome (answer or failure) is chosen nondeterministically per call.    *)
(***************************************************************************)
EXTENDS Integers, Sequences, FiniteSets, TLC

\* Bounds of the model: the number of message deliveries (redeliveries
\* included), and the offset at which each partition stands when the consumers
\* join (they subscribe with fromBeginning: false).
MaxMsgs == 2
StartOffset == 3

\* ------------------------------------------------------------------------
\* Program constants
\* ------------------------------------------------------------------------
UserMaxRetries == 5
UserBaseDelay == 500
OrderMaxRetries == 3
OrderBaseDelay == 1000
ProductMaxRetries == 5
ProductBaseDelay == 500
RecMaxRetries == 3
RecDelayUnit == 1000

DLQ_TOPIC == "dead-letter-queue"

Groups == {"critical", "standard"}
HighPriorityTopics == {"user-events", "order-events"}
StandardPriorityTopics == {"product-events", "recommendation-events"}
Topics == HighPriorityTopics \cup StandardPriorityTopics
Partitions == {0}

\* a topic of the broker that neither if-chain of the router has a branch
\* for and that neither consumer subscribes to
UnroutedTopic == "inventory-events"

GroupTopics(g) == IF g = "critical" THEN HighPriorityTopics ELSE StandardPriorityTopics

\* ------------------------------------------------------------------------
\* Message values and events
\* ------------------------------------------------------------------------
\* A message value is null, or a byte buffer: zero-length, not JSON, the JSON
\* literal null, or a JSON object.  An object carries the fields the
\* processors read: userId ("" when missing) and, for recommendation events,
\* the shape of the recommendations list; other tells whether the object has
\* fields that the record a processor builds for the dead-letter router does
\* not list (the email of a user-service event, the products of an
\* order-service event).
NullValue == [kind |-> "null", userId |-> "", recs |-> "absent", other |-> "none"]
EmptyValue == [kind |-> "empty", userId |-> "", recs |-> "absent", other |-> "none"]
BadJsonValue == [kind |-> "badjson", userId |-> "", recs |-> "absent", other |-> "none"]
JsonNullValue == [kind |-> "jsonnull", userId |-> "", recs |-> "absent", other |-> "none"]

ObjectValues(topic) ==
  CASE topic = "user-events" ->
         {[kind |-> "object", userId |-> "u1", recs |-> "absent", other |-> o] :
            o \in {"none", "some"}}
    [] topic = "order-events" ->
         {[kind |-> "object", userId |-> u, recs |-> "absent", other |-> "none"] :
            u \in {"", "u1"}}
    [] topic = "recommendation-events" ->
         {[kind |-> "object", userId |-> "u1", recs |-> r, other |-> "none"] :
            r \in {"empty", "baditem", "nullitem", "ok"}}
           \cup {[kind |-> "object", userId |-> "", recs |-> "ok", other |-> "none"],
                 [kind |-> "object", userId |-> "u1", recs |-> "nullitem", other |-> "some"]}
    [] OTHER -> {[kind |-> "object", userId |-> "u1", recs |-> "absent", other |-> "none"]}

Values(topic) == {NullValue, EmptyValue, BadJsonValue, JsonNullValue} \cup ObjectValues(topic)

NoMsg == [topic |-> "none", partition |-> 0, offset |-> 0, value |-> NullValue]
NoEvent == [isNull |-> TRUE, userId |-> "", recs |-> "absent", other |-> "none"]

\* `!message.value`: only a null value is falsy; a zero-length Buffer is an
\* object and therefore truthy.
ValueIsFalsy(value) == value.kind = "null"

\* JSON.parse(message.value.toString()): a SyntaxError for a zero-length or
\* non-JSON text, otherwise the parsed value.
JSONParseThrows(value) == value.kind \in {"empty", "badjson"}

JSONParse(value) ==
  IF value.kind = "object"
    THEN [isNull |-> FALSE, userId |-> value.userId, recs |-> value.recs,
          other |-> value.other]
    ELSE NoEvent

\* Reading event.type / event.userId for the log line: a TypeError when the
\* parsed value is null.
EventLogThrows(event) == event.isNull

RECURSIVE Pow2(_)
Pow2(n) == IF n = 0 THEN 1 ELSE 2 * Pow2(n - 1)

\* ------------------------------------------------------------------------
\* State
\* ------------------------------------------------------------------------
VARIABLES
  h,          \* per consumer group: the eachMessage handler in flight
  store,      \* the notification collection (append-only sequence of records)
  dlq,        \* the messages on the dead-letter topic
  committed,  \* per topic and partition: the next offset to deliver
  delivered,  \* number of deliveries made so far
  conn,       \* the process-wide connections: mongoose, the shared producer
              \* (underway: the groups whose chain was running when the
              \* connections were closed)
  cron,       \* the scheduled jobs of the recommendation and the catalog
              \* processor: the run of each periodic sweep
  boot        \* the start of the process: the position of startServer, the
              \* services constructed, the schedules registered per sweep,
              \* the priority consumers running

vars == <<h, store, dlq, committed, delivered, conn, cron, boot>>

NoError == <<>>

\* no sweep is running and none has run
IdleRecSweep ==
  [pc |-> "idle", pending |-> <<>>, batch |-> 0, inFlight |-> {},
   settled |-> {}, failed |-> {}, mailed |-> {}]

IdlePromoSweep ==
  [pc |-> "idle", runs |-> 0, users |-> {}, created |-> <<>>, error |-> FALSE,
   mailed |-> {}]

IdleCron == [rec |-> IdleRecSweep, promo |-> IdlePromoSweep]

Sweeps == {"rec", "promo"}

\* nothing of the service's own modules has been loaded yet
BootLoading ==
  [pc |-> "load", cause |-> "none", instances |-> 0,
   schedules |-> [s \in Sweeps |-> 0], started |-> {},
   fired |-> [s \in Sweeps |-> 0]]

\* new NotificationProcessorService(): the constructor creates the four
\* processors; the constructors of the catalog and of the recommendation
\* processor each call initializeCronJob, which registers one more schedule
ConstructService(b) ==
  [b EXCEPT !.instances = @ + 1,
            !.schedules = [s \in Sweeps |-> @[s] + 1]]

\* startServer has run to its end without a failure: the module-level
\* service and the one of initializeNotificationProcessor were constructed
\* and the latter's two consumers run
BootUp ==
  [ConstructService(ConstructService(BootLoading))
     EXCEPT !.pc = "up", !.started = {"critical", "standard"}]

IdleHandler ==
  [pc |-> "idle", msg |-> NoMsg, event |-> NoEvent, proc |-> "none",
   retryCount |-> 0, attempts |-> 0, delays |-> <<>>, error |-> NoError,
   returned |-> "none", seen |-> {}, calls |-> <<>>,
   lookupCalls |-> 0, lookupErrs |-> 0, storeCalls |-> 0, storeErrs |-> 0,
   mailCalls |-> 0,
   records |-> <<>>, pubs |-> <<>>, lostAttempts |-> 0]

Init ==
  /\ h = [g \in Groups |-> IdleHandler]
  /\ store = <<>>
  /\ dlq = <<>>
  /\ committed = [t \in Topics \cup {UnroutedTopic} |-> [p \in Partitions |-> StartOffset]]
  /\ delivered = 0
  /\ conn = [mongoose |-> TRUE, producer |-> TRUE, underway |-> {}]
  /\ cron = IdleCron
  /\ boot = BootUp

SetH(g, hh) == h' = [h EXCEPT ![g] = hh]

\* ------------------------------------------------------------------------
\* Event router: processHighPriorityMessage / processStandardPriorityMessage
\* up to the dispatch to a processor
\* ------------------------------------------------------------------------
ProcessorOf(topic) ==
  CASE topic = "user-events" -> "user"
    [] topic = "order-events" -> "order"
    [] topic = "product-events" -> "product"
    [] topic = "recommendation-events" -> "rec"
    [] OTHER -> "none"

\* Variant of Dispatch: the parse and the log line sit inside the try block,
\* so their failure reaches the router's catch block.
DispatchParseInsideTry(msg) ==
  LET fresh == [IdleHandler EXCEPT !.msg = msg] IN
  IF ValueIsFalsy(msg.value) THEN [fresh EXCEPT !.pc = "done"]
  ELSE IF JSONParseThrows(msg.value) \/ EventLogThrows(JSONParse(msg.value))
    THEN [fresh EXCEPT !.pc = "caught", !.error = <<"Unexpected end of JSON input">>]
  ELSE LET p == ProcessorOf(msg.topic) IN
       [fresh EXCEPT !.event = JSONParse(msg.value),
                     !.proc = p,
                     !.pc = IF p = "none" THEN "returned" ELSE p]

\* The state of the handler once the synchronous prefix of the per-message
\* handler has run on msg: dropped (null value), raised (parse or log
\* failure, outside the try block), or dispatched to the topic's processor.
Dispatch(msg) ==
  LET fresh == [IdleHandler EXCEPT !.msg = msg] IN
  IF ValueIsFalsy(msg.value) THEN [fresh EXCEPT !.pc = "done"]
  ELSE IF JSONParseThrows(msg.value) THEN [fresh EXCEPT !.pc = "thrown"]
  ELSE IF EventLogThrows(JSONParse(msg.value)) THEN [fresh EXCEPT !.pc = "thrown"]
  ELSE LET p == ProcessorOf(msg.topic) IN
       [fresh EXCEPT !.event = JSONParse(msg.value),
                     !.proc = p,
                     !.pc = IF p = "none" THEN "returned" ELSE p]

\* Variant of Deliver: one poll loop serves both groups, so a message is
\* handed over only when neither group has one in flight.
DeliverSharedLoop(g) ==
  /\ \A g2 \in Groups : h[g2].pc = "idle"
  /\ delivered < MaxMsgs
  /\ \E t \in GroupTopics(g), p \in Partitions : \E v \in Values(t) :
       SetH(g, Dispatch([topic |-> t, partition |-> p,
                         offset |-> committed[t][p], value |-> v]))
  /\ delivered' = delivered + 1
  /\ UNCHANGED <<store, dlq, committed, conn, cron, boot>>

\* Variant of Deliver: the next message is handed over while the previous
\* one is still being handled.
DeliverWhileBusy(g) ==
  /\ h[g].pc # "thrown"
  /\ delivered < MaxMsgs
  /\ \E t \in GroupTopics(g), p \in Partitions : \E v \in Values(t) :
       SetH(g, Dispatch([topic |-> t, partition |-> p,
                         offset |-> committed[t][p], value |-> v]))
  /\ delivered' = delivered + 1
  /\ UNCHANGED <<store, dlq, committed, conn, cron, boot>>

\* The broker hands the group its next message: a fresh one at the committed
\* offset of some partition of a subscribed topic.  eachMessage is awaited
\* before the next message is taken, one partition at a time.
Deliver(g) ==
  /\ h[g].pc = "idle"
  /\ delivered < MaxMsgs
  /\ \E t \in GroupTopics(g), p \in Partitions : \E v \in Values(t) :
       SetH(g, Dispatch([topic |-> t, partition |-> p,
                         offset |-> committed[t][p], value |-> v]))
  /\ delivered' = delivered + 1
  /\ UNCHANGED <<store, dlq, committed, conn, cron, boot>>

\* Variant of Redeliver: the message whose handler raised is passed over and
\* the handler is given the next offset of the partition.
RedeliverNext(g) ==
  /\ h[g].pc \in {"thrown", "crashed"}
  /\ delivered < MaxMsgs
  /\ \E v \in Values(h[g].msg.topic) :
       SetH(g, [Dispatch([h[g].msg EXCEPT !.offset = @ + 1, !.value = v])
                  EXCEPT !.lostAttempts = h[g].lostAttempts])
  /\ delivered' = delivered + 1
  /\ UNCHANGED <<store, dlq, committed, conn, cron, boot>>

\* A handler that raised, or that died with the process, left its offset
\* uncommitted: the broker client delivers the same message again, and the
\* handling starts afresh (lostAttempts only remembers, for the properties,
\* the attempts made by chains that a crash cut short).
Redeliver(g) ==
  /\ h[g].pc \in {"thrown", "crashed"}
  /\ delivered < MaxMsgs
  /\ SetH(g, [Dispatch(h[g].msg) EXCEPT !.lostAttempts = h[g].lostAttempts])
  /\ delivered' = delivered + 1
  /\ UNCHANGED <<store, dlq, committed, conn, cron, boot>>

ProcessHighPriorityMessage == Deliver("critical") \/ Redeliver("critical")

ProcessStandardPriorityMessage == Deliver("standard") \/ Redeliver("standard")

\* Variant of Commit: the offset is committed as soon as the message has
\* been handed to the handler.
CommitBeforeHandled(g) ==
  /\ h[g].pc \notin {"idle", "crashed"}
  /\ committed' = [committed EXCEPT ![h[g].msg.topic][h[g].msg.partition] = h[g].msg.offset + 1]
  /\ SetH(g, IF h[g].pc = "done" THEN IdleHandler ELSE h[g])
  /\ UNCHANGED <<store, dlq, delivered, conn, cron, boot>>

\* eachMessage resolved: the offset of the message is committed.
Commit(g) ==
  /\ h[g].pc = "done"
  /\ committed' = [committed EXCEPT ![h[g].msg.topic][h[g].msg.partition] = h[g].msg.offset + 1]
  /\ SetH(g, IdleHandler)
  /\ UNCHANGED <<store, dlq, delivered, conn, cron, boot>>

\* ------------------------------------------------------------------------
\* Collaborators: the calls a processor makes and what it observes
\* ------------------------------------------------------------------------
LookupErr == <<"identity lookup failed">>
StoreErr == <<"store write failed">>
PublishErr == <<"broker send failed">>

\* new Error(`${prefix}${inner.message}`)
Wrap(prefix, inner) == <<prefix>> \o inner

CallLookup(hh, lookup) ==
  [hh EXCEPT !.calls = Append(@, "lookup"),
             !.lookupCalls = @ + 1,
             !.lookupErrs = IF lookup = "error" THEN @ + 1 ELSE @,
             !.seen = @ \cup (CASE lookup = "error" -> {"lookupError"}
                                [] lookup = "noemail" -> {"noEmail"}
                                [] lookup = "optout" -> {"optOut"}
                                [] OTHER -> {})]

CallStore(hh, st) ==
  [hh EXCEPT !.calls = Append(@, "store"),
             !.storeCalls = @ + 1,
             !.storeErrs = IF st = "error" THEN @ + 1 ELSE @,
             !.seen = @ \cup (IF st = "error" THEN {"storeError"} ELSE {})]

CallMail(hh, mail) ==
  [hh EXCEPT !.calls = Append(@, "mail"),
             !.mailCalls = @ + 1,
             !.seen = @ \cup (IF mail = "error" THEN {"mailError"} ELSE {})]

\* A write on a closed mongoose connection is buffered and times out; send on
\* a disconnected producer rejects.
StoreCanAnswer(st) == st = "ok" => conn.mongoose

ProducerCanSend(pub) == pub = "ok" => conn.producer

\* What the collaborators answer during one attempt of the account and order
\* processors: <<identity lookup, store write, mail transport>>, "none" for a
\* call the attempt does not reach.
LookupStoreMail ==
  {<<"error", "none", "none">>, <<"noemail", "none", "none">>,
   <<"email", "error", "none">>, <<"email", "ok", "ok">>, <<"email", "ok", "error">>}

\* During one pass of the recommendation processor: <<lookup, store write,
\* lookup of the resend, mail transport, save of the delivery state>>.
RecOutcomes ==
  {<<"error", "none", "none", "none", "none">>, <<"noemail", "none", "none", "none", "none">>,
   <<"optout", "none", "none", "none", "none">>, <<"email", "error", "none", "none", "none">>,
   <<"email", "ok", "error", "none", "none">>,
   <<"email", "ok", "optout", "none", "ok">>, <<"email", "ok", "optout", "none", "error">>,
   <<"email", "ok", "email", "error", "none">>,
   <<"email", "ok", "email", "ok", "ok">>, <<"email", "ok", "email", "ok", "error">>}

\* Variant of NotificationRecord: the retry counter is not threaded into the
\* metadata.
NotificationRecordFirstTry(userId, email, type, priority, hasRetryCount, retryCount) ==
  [userId |-> userId, email |-> email, type |-> type, priority |-> priority,
   metadata |-> [hasRetryCount |-> hasRetryCount, retryCount |-> 0],
   read |-> FALSE, emailSent |-> FALSE, sentAt |-> "set"]

\* Notification.create(...): the document as persisted.
NotificationRecord(userId, email, type, priority, hasRetryCount, retryCount) ==
  [userId |-> userId, email |-> email, type |-> type, priority |-> priority,
   metadata |-> [hasRetryCount |-> hasRetryCount, retryCount |-> retryCount],
   read |-> FALSE, emailSent |-> FALSE, sentAt |-> "set"]

Created(hh, rec) == [hh EXCEPT !.records = Append(@, rec)]

StartAttempt(hh) == [hh EXCEPT !.attempts = @ + 1, !.calls = <<>>]

\* processingResult as the router holds it: false until a processor returned true
ProcessingResult(hh) == hh.returned = "true"

\* The processor returned to the router: handleFailedProcessing does nothing
\* for a true result and the per-message handler resolves; a false result is
\* about to be queued by the router.
RouterResume(hh) == [hh EXCEPT !.pc = IF ProcessingResult(hh) THEN "done" ELSE "returned"]

ReturnTrue(hh) == RouterResume([hh EXCEPT !.returned = "true"])

ReturnFalse(hh) == RouterResume([hh EXCEPT !.returned = "false"])

\* await delay(ms); then the next attempt with retryCount + 1
RetryAfter(hh, err, ms) ==
  [hh EXCEPT !.error = err, !.delays = Append(@, ms), !.retryCount = @ + 1]

\* Variant of Escalate: once the retry budget is spent the last error is
\* rethrown to the router instead of being handed to the dead-letter router.
EscalateRethrown(hh, err) == [hh EXCEPT !.error = err, !.pc = "caught"]

\* the retry budget is spent: hand the event to the dead-letter router
Escalate(hh, err) == [hh EXCEPT !.error = err, !.pc = "escalate"]

\* ------------------------------------------------------------------------
\* UserUpdateEventProcessor (account-lifecycle events)
\* ------------------------------------------------------------------------
\* Variant of UserBackoffDelay: linear instead of exponential backoff.
UserBackoffDelayLinear(retryCount) == (retryCount + 1) * UserBaseDelay

UserBackoffDelay(retryCount) == Pow2(retryCount) * UserBaseDelay

\* Variant of UserHandleProcessingError: the budget test is off by one.
UserHandleProcessingErrorOffByOne(hh, err) ==
  IF hh.retryCount <= UserMaxRetries
    THEN RetryAfter(hh, err, UserBackoffDelay(hh.retryCount))
    ELSE Escalate(hh, err)

UserHandleProcessingError(hh, err) ==
  IF hh.retryCount < UserMaxRetries
    THEN RetryAfter(hh, err, UserBackoffDelay(hh.retryCount))
    ELSE Escalate(hh, err)

\* handleCriticalNotification: the mail failure is logged, not rethrown
UserHandleCriticalNotification(hh, priority, mail) ==
  IF priority = "critical" THEN CallMail(hh, mail) ELSE hh

\* Variant of UserCreateNotificationForEvent: the failure of the mail
\* transport is rethrown instead of being logged.
UserCreateNotificationForEventMailRethrown(hh, st0, lookup, st, mail) ==
  LET h1 == CallLookup(hh, lookup) IN
  IF lookup = "error"
    THEN [h |-> h1, store |-> st0,
          error |-> Wrap("Notification processing failed: ",
                         Wrap("Failed to retrieve user details: ", LookupErr))]
  ELSE IF lookup = "noemail"
    THEN [h |-> h1, store |-> st0, error |-> NoError]
  ELSE LET h2 == CallStore(h1, st) IN
    IF st = "error"
      THEN [h |-> h2, store |-> st0,
            error |-> Wrap("Notification processing failed: ", StoreErr)]
      ELSE LET rec == NotificationRecord(hh.event.userId, "email", "USER_UPDATE",
                                         "critical", TRUE, hh.retryCount)
           IN [h |-> UserHandleCriticalNotification(Created(h2, rec), "critical", mail),
               store |-> Append(st0, rec),
               error |-> IF mail = "error"
                           THEN Wrap("Notification processing failed: ",
                                     <<"Comprehensive email notification failed">>)
                           ELSE NoError]

\* createNotificationForEvent: [h, store, error]; error = NoError when it
\* returned (a document, or null for a user without email)
UserCreateNotificationForEvent(hh, st0, lookup, st, mail) ==
  LET h1 == CallLookup(hh, lookup) IN
  IF lookup = "error"
    THEN [h |-> h1, store |-> st0,
          error |-> Wrap("Notification processing failed: ",
                         Wrap("Failed to retrieve user details: ", LookupErr))]
  ELSE IF lookup = "noemail"
    THEN [h |-> h1, store |-> st0, error |-> NoError]
  ELSE LET h2 == CallStore(h1, st) IN
    IF st = "error"
      THEN [h |-> h2, store |-> st0,
            error |-> Wrap("Notification processing failed: ", StoreErr)]
      ELSE LET rec == NotificationRecord(hh.event.userId, "email", "USER_UPDATE",
                                         "critical", TRUE, hh.retryCount)
           IN [h |-> UserHandleCriticalNotification(Created(h2, rec), "critical", mail),
               store |-> Append(st0, rec), error |-> NoError]

\* one pass of processUserUpdateEventWithRetry
ProcessUserUpdateEventWithRetry(g) ==
  /\ h[g].pc = "user"
  /\ \E o \in LookupStoreMail :
       LET r == UserCreateNotificationForEvent(StartAttempt(h[g]), store, o[1], o[2], o[3]) IN
         /\ StoreCanAnswer(o[2])
         /\ store' = r.store
         /\ SetH(g, IF r.error = NoError THEN ReturnTrue(r.h)
                                         ELSE UserHandleProcessingError(r.h, r.error))
  /\ UNCHANGED <<dlq, committed, delivered, conn, cron, boot>>

\* ------------------------------------------------------------------------
\* OrderUpdateEventProcessor (order-lifecycle events)
\* ------------------------------------------------------------------------
\* Variant of OrderBackoffDelay: the retry follows at once.
OrderBackoffDelayNone(retryCount) == 0

\* Math.pow(2, retryCount) * 1000
OrderBackoffDelay(retryCount) == Pow2(retryCount) * OrderBaseDelay

\* Variant of OrderHandleProcessingError: the first failure is final.
OrderHandleProcessingErrorNoRetry(hh, err) == Escalate(hh, err)

OrderHandleProcessingError(hh, err) ==
  IF hh.retryCount < OrderMaxRetries
    THEN RetryAfter(hh, err, OrderBackoffDelay(hh.retryCount))
    ELSE Escalate(hh, err)

\* Variant of OrderValidateEventThrows: the test is inverted.
OrderValidateEventThrowsInverted(event) == event.userId # ""

\* validateEvent: TRUE when it throws
OrderValidateEventThrows(event) == event.userId = ""

\* getUserEmail: '' for a user without email
OrderUserEmail(lookup) == IF lookup = "noemail" THEN "" ELSE "email"

\* handleEmailNotification: the mail failure is logged, not rethrown
OrderHandleEmailNotification(hh, type, mail) ==
  IF type = "ORDER_UPDATE" THEN CallMail(hh, mail) ELSE hh

\* Variant of OrderCreateNotificationForEvent: the failure of the mail
\* transport leaves handleEmailNotification and fails the attempt.
OrderCreateNotificationForEventMailRethrown(hh, st0, lookup, st, mail) ==
  LET h1 == CallLookup(hh, lookup) IN
  IF lookup = "error"
    THEN [h |-> h1, store |-> st0,
          error |-> Wrap("Notification processing failed: ",
                         Wrap("Failed to retrieve user details: ", LookupErr))]
  ELSE LET h2 == CallStore(h1, st) IN
    IF st = "error"
      THEN [h |-> h2, store |-> st0,
            error |-> Wrap("Notification processing failed: ", StoreErr)]
      ELSE LET rec == NotificationRecord(hh.event.userId, OrderUserEmail(lookup),
                                         "ORDER_UPDATE", "critical", TRUE, hh.retryCount)
           IN [h |-> OrderHandleEmailNotification(Created(h2, rec), "ORDER_UPDATE", mail),
               store |-> Append(st0, rec),
               error |-> IF mail = "error"
                           THEN Wrap("Notification processing failed: ",
                                     <<"Email sending failed">>)
                           ELSE NoError]

\* createNotificationForEvent of the order processor: [h, store, error]
OrderCreateNotificationForEvent(hh, st0, lookup, st, mail) ==
  LET h1 == CallLookup(hh, lookup) IN
  IF lookup = "error"
    THEN [h |-> h1, store |-> st0,
          error |-> Wrap("Notification processing failed: ",
                         Wrap("Failed to retrieve user details: ", LookupErr))]
  ELSE LET h2 == CallStore(h1, st) IN
    IF st = "error"
      THEN [h |-> h2, store |-> st0,
            error |-> Wrap("Notification processing failed: ", StoreErr)]
      ELSE LET rec == NotificationRecord(hh.event.userId, OrderUserEmail(lookup),
                                         "ORDER_UPDATE", "critical", TRUE, hh.retryCount)
           IN [h |-> OrderHandleEmailNotification(Created(h2, rec), "ORDER_UPDATE", mail),
               store |-> Append(st0, rec), error |-> NoError]

\* one pass of processOrderUpdateEventWithRetry
ProcessOrderUpdateEventWithRetry(g) ==
  /\ h[g].pc = "order"
  /\ \E o \in (LookupStoreMail \cup {<<"noemail", "error", "none">>,
                                      <<"noemail", "ok", "ok">>, <<"noemail", "ok", "error">>}) :
       LET h0 == StartAttempt(h[g])
           r == IF OrderValidateEventThrows(h0.event)
                  THEN [h |-> h0, store |-> store,
                        error |-> <<"Invalid Order Event - Missing userId">>]
                  ELSE OrderCreateNotificationForEvent(h0, store, o[1], o[2], o[3])
       IN /\ StoreCanAnswer(o[2])
          /\ store' = r.store
          /\ SetH(g, IF r.error = NoError THEN ReturnTrue(r.h)
                                          ELSE OrderHandleProcessingError(r.h, r.error))
  /\ UNCHANGED <<dlq, committed, delivered, conn, cron, boot>>

\* ------------------------------------------------------------------------
\* ProductEventProcessor (catalog events)
\* ------------------------------------------------------------------------
ProductBackoffDelay(retryCount) == Pow2(retryCount) * ProductBaseDelay

ProductCreateNotificationForEvent(hh, st0, st, mail) ==
  LET h1 == CallStore(hh, st) IN
  IF st = "error"
    THEN [h |-> h1, store |-> st0, error |-> StoreErr]
    ELSE LET rec == NotificationRecord(hh.event.userId, "email", "PROMOTION",
                                       "standard", TRUE, hh.retryCount)
         IN [h |-> CallMail(Created(h1, rec), mail),
             store |-> Append(st0, rec), error |-> NoError]

\* Variant of ProcessProductEventWithRetry: the retry is made with the same
\* retryCount instead of retryCount + 1.
ProcessProductEventWithRetrySameCount(g) ==
  /\ h[g].pc = "product"
  /\ \E o \in {<<"error", "none">>, <<"ok", "ok">>, <<"ok", "error">>} :
       LET r == ProductCreateNotificationForEvent(StartAttempt(h[g]), store, o[1], o[2]) IN
         /\ StoreCanAnswer(o[1])
         /\ store' = r.store
         /\ SetH(g, IF r.error = NoError THEN ReturnTrue(r.h)
                    ELSE IF r.h.retryCount < ProductMaxRetries
                      THEN [RetryAfter(r.h, r.error, ProductBackoffDelay(r.h.retryCount))
                              EXCEPT !.retryCount = r.h.retryCount]
                      ELSE Escalate(r.h, r.error))
  /\ UNCHANGED <<dlq, committed, delivered, conn, cron, boot>>

\* one pass of processProductEventWithRetry
ProcessProductEventWithRetry(g) ==
  /\ h[g].pc = "product"
  /\ \E o \in {<<"error", "none">>, <<"ok", "ok">>, <<"ok", "error">>} :
       LET r == ProductCreateNotificationForEvent(StartAttempt(h[g]), store, o[1], o[2]) IN
         /\ StoreCanAnswer(o[1])
         /\ store' = r.store
         /\ SetH(g, IF r.error = NoError THEN ReturnTrue(r.h)
                    ELSE IF r.h.retryCount < ProductMaxRetries
                      THEN RetryAfter(r.h, r.error, ProductBackoffDelay(r.h.retryCount))
                      ELSE Escalate(r.h, r.error))
  /\ UNCHANGED <<dlq, committed, delivered, conn, cron, boot>>

\* ------------------------------------------------------------------------
\* RecommendationEventProcessor (recommendation events)
\* ------------------------------------------------------------------------
\* validateEvent: userId present, recommendations a non-empty array whose
\* items all have productId, name, a numeric price and category
RecValidateEvent(event) == event.userId # "" /\ event.recs = "ok"

\* validateRecommendationItem reads rec.productId: a TypeError when an item
\* of the list is null (reached only when userId is present)
RecValidateEventThrows(event) == event.userId # "" /\ event.recs = "nullitem"

\* the delay after the catch block has incremented retryCount
RecBackoffDelay(retryCount) == Pow2(retryCount) * RecDelayUnit

\* markNotificationProcessed: the document as saved
MarkNotificationProcessed(rec, sent) == [rec EXCEPT !.emailSent = sent, !.sentAt = "set"]

\* sendEmailNotification on the document just created: every failure inside
\* (second lookup, mail transport, save) is logged and swallowed.
\* [h, rec]: the handler trace and the document as it is in the store.
RecSendEmailNotification(hh, rec, lookup2, mail, save) ==
  IF rec.emailSent THEN [h |-> hh, rec |-> rec]
  ELSE LET h1 == [hh EXCEPT !.calls = Append(@, "lookup"), !.lookupCalls = @ + 1] IN
    IF lookup2 \in {"noemail", "error"}
      THEN [h |-> [h1 EXCEPT !.seen = @ \cup {"resendLookupNull"}], rec |-> rec]
    ELSE IF lookup2 = "optout"
      THEN [h |-> [h1 EXCEPT !.seen = @ \cup {"resendOptOut"}],
            rec |-> IF save = "ok" THEN MarkNotificationProcessed(rec, FALSE) ELSE rec]
    ELSE LET h2 == CallMail(h1, mail) IN
      IF mail = "error" THEN [h |-> h2, rec |-> rec]
      ELSE IF save = "ok" THEN [h |-> h2, rec |-> MarkNotificationProcessed(rec, TRUE)]
      ELSE [h |-> [h2 EXCEPT !.seen = @ \cup {"saveError"}], rec |-> rec]

\* Variant of RecTryBlock: a lookup that answers no user ends the pass
\* without raising, as a soft success.
RecTryBlockMissingUserAbsorbed(hh, st0, lookup, st, lookup2, mail, save) ==
  LET h1 == CallLookup(hh, lookup) IN
  IF lookup \in {"noemail", "error", "optout"}
    THEN [h |-> h1, store |-> st0, error |-> NoError]
  ELSE LET h2 == CallStore(h1, st) IN
    IF st = "error"
      THEN [h |-> h2, store |-> st0, error |-> StoreErr]
      ELSE LET rec == NotificationRecord(hh.event.userId, "email", "RECOMMENDATION",
                                         "standard", FALSE, 0)
               sent == RecSendEmailNotification(h2, rec, lookup2, mail, save)
           IN [h |-> Created(sent.h, sent.rec), store |-> Append(st0, sent.rec),
               error |-> NoError]

\* Variant of RecTryBlock: an opt-out is raised as an error of the attempt.
RecTryBlockOptOutRaised(hh, st0, lookup, st, lookup2, mail, save) ==
  LET h1 == CallLookup(hh, lookup) IN
  IF lookup \in {"noemail", "error"}
    THEN [h |-> h1, store |-> st0, error |-> <<"User data not found for userId: ", hh.event.userId>>]
  ELSE IF lookup = "optout"
    THEN [h |-> h1, store |-> st0, error |-> <<"User has opted out of recommendations">>]
  ELSE LET h2 == CallStore(h1, st) IN
    IF st = "error"
      THEN [h |-> h2, store |-> st0, error |-> StoreErr]
      ELSE LET rec == NotificationRecord(hh.event.userId, "email", "RECOMMENDATION",
                                         "standard", FALSE, 0)
               sent == RecSendEmailNotification(h2, rec, lookup2, mail, save)
           IN [h |-> Created(sent.h, sent.rec), store |-> Append(st0, sent.rec),
               error |-> NoError]

\* the body of the try block of processRecommendationEvent, after validation:
\* [h, store, error, result]
RecTryBlock(hh, st0, lookup, st, lookup2, mail, save) ==
  LET h1 == CallLookup(hh, lookup) IN
  IF lookup \in {"noemail", "error"}
    THEN [h |-> h1, store |-> st0, error |-> <<"User data not found for userId: ", hh.event.userId>>]
  ELSE IF lookup = "optout"
    THEN [h |-> h1, store |-> st0, error |-> NoError]
  ELSE LET h2 == CallStore(h1, st) IN
    IF st = "error"
      THEN [h |-> h2, store |-> st0, error |-> StoreErr]
      ELSE LET rec == NotificationRecord(hh.event.userId, "email", "RECOMMENDATION",
                                         "standard", FALSE, 0)
               sent == RecSendEmailNotification(h2, rec, lookup2, mail, save)
           IN [h |-> Created(sent.h, sent.rec), store |-> Append(st0, sent.rec),
               error |-> NoError]

\* the catch block: retryCount++, then dead-letter or back off
RecCatch(hh, err) ==
  IF hh.retryCount + 1 = RecMaxRetries
    THEN [Escalate(hh, err) EXCEPT !.retryCount = @ + 1]
    ELSE RetryAfter(hh, err, RecBackoffDelay(hh.retryCount + 1))

\* one iteration of the while loop of processRecommendationEvent
ProcessRecommendationEvent(g) ==
  /\ h[g].pc = "rec"
  /\ h[g].retryCount < RecMaxRetries
  /\ \E o \in RecOutcomes :
       LET h0 == StartAttempt(h[g]) IN
       /\ StoreCanAnswer(o[2]) /\ StoreCanAnswer(o[5])
       /\ IF RecValidateEventThrows(h0.event)
            THEN /\ SetH(g, RecCatch(h0, <<"Cannot read properties of null (reading 'productId')">>))
                 /\ store' = store
          ELSE IF ~RecValidateEvent(h0.event)
            THEN /\ SetH(g, ReturnFalse(h0))
                 /\ store' = store
            ELSE LET r == RecTryBlock(h0, store, o[1], o[2], o[3], o[4], o[5]) IN
                 /\ store' = r.store
                 /\ SetH(g, IF r.error = NoError THEN ReturnTrue(r.h) ELSE RecCatch(r.h, r.error))
  /\ UNCHANGED <<dlq, committed, delivered, conn, cron, boot>>

\* ------------------------------------------------------------------------
\* DeadLetterQueueHandler
\* ------------------------------------------------------------------------
\* `${originalTopic}-${metadata.partition}-${metadata.offset}`
MessageKey(originalTopic, partition, offset) == <<originalTopic, partition, offset>>

\* Buffer.toString('base64')
Base64(bytes) == [base64 |-> bytes]

\* The record a processor hands to handleFailedMessage: the account, order
\* and catalog processors copy the fields they list and no others; the
\* recommendation processor spreads the whole event.
EventAsRecord(proc, event) ==
  IF proc = "rec" THEN event ELSE [event EXCEPT !.other = "none"]

\* Buffer.from(JSON.stringify(event)): the text of the record's own fields
StringifyEvent(event) ==
  [kind |-> "object", userId |-> event.userId, recs |-> event.recs, other |-> event.other]

\* Buffer.from(text, 'base64') of an envelope's originalMessage
Base64Decode(text) == text.base64

\* error.message || 'Unknown error'
ReasonOf(err) == IF err = NoError THEN <<"Unknown error">> ELSE err

DLQMetadata(originalTopic, partition, offset, reason) ==
  [originalTopic |-> originalTopic, partition |-> partition, offset |-> offset,
   reason |-> reason]

\* the message queueFailedMessage hands to producer.send
Envelope(originalTopic, originalMessage, metadata) ==
  [topic |-> DLQ_TOPIC,
   key |-> MessageKey(originalTopic, metadata.partition, metadata.offset),
   value |-> [originalMessage |-> Base64(originalMessage), metadata |-> metadata]]

\* Variant of QueueFailedMessage: an envelope whose key is already on the
\* dead-letter topic is not published again.
QueueFailedMessageDeduplicated(hh, dq, by, originalTopic, originalMessage, metadata, pub) ==
  LET env == Envelope(originalTopic, originalMessage, metadata) IN
  [h |-> [hh EXCEPT !.pubs = Append(@, [by |-> by, ok |-> (pub = "ok"), env |-> env])],
   dlq |-> IF pub = "ok" /\ ~\E i \in DOMAIN dq : dq[i].key = env.key
             THEN Append(dq, env) ELSE dq,
   threw |-> (pub # "ok")]

\* queueFailedMessage: [h, dlq, threw]; the send failure is rethrown
QueueFailedMessage(hh, dq, by, originalTopic, originalMessage, metadata, pub) ==
  LET env == Envelope(originalTopic, originalMessage, metadata) IN
  [h |-> [hh EXCEPT !.pubs = Append(@, [by |-> by, ok |-> (pub = "ok"), env |-> env])],
   dlq |-> IF pub = "ok" THEN Append(dq, env) ELSE dq,
   threw |-> (pub # "ok")]

\* Variant of HandleFailedMessage: the failure of queueFailedMessage is
\* rethrown, so it leaves the processor and reaches the router's catch block.
HandleFailedMessageRethrown(g) ==
  /\ h[g].pc = "escalate"
  /\ \E pub \in {"ok", "error"} :
       /\ ProducerCanSend(pub)
       /\ LET hh == h[g]
              q == QueueFailedMessage(hh, dlq, "processor", hh.msg.topic,
                                      StringifyEvent(EventAsRecord(hh.proc, hh.event)),
                                      DLQMetadata(hh.msg.topic, hh.msg.partition,
                                                  hh.msg.offset, ReasonOf(hh.error)),
                                      pub)
          IN /\ dlq' = q.dlq
             /\ SetH(g, IF q.threw THEN [q.h EXCEPT !.pc = "caught", !.error = PublishErr]
                                   ELSE ReturnFalse(q.h))
  /\ UNCHANGED <<store, committed, delivered, conn, cron, boot>>

\* handleFailedMessage, called by a processor whose retries are spent: the
\* failure of queueFailedMessage is caught and logged; the processor then
\* returns false
HandleFailedMessage(g) ==
  /\ h[g].pc = "escalate"
  /\ \E pub \in {"ok", "error"} :
       /\ ProducerCanSend(pub)
       /\ LET hh == h[g]
              q == QueueFailedMessage(hh, dlq, "processor", hh.msg.topic,
                                      StringifyEvent(EventAsRecord(hh.proc, hh.event)),
                                      DLQMetadata(hh.msg.topic, hh.msg.partition,
                                                  hh.msg.offset, ReasonOf(hh.error)),
                                      pub)
          IN /\ dlq' = q.dlq
             /\ SetH(g, ReturnFalse(q.h))
  /\ UNCHANGED <<store, committed, delivered, conn, cron, boot>>

\* ------------------------------------------------------------------------
\* Event router: what follows the processor's return
\* ------------------------------------------------------------------------
ProcessingFailedReason(g) ==
  IF g = "critical" THEN <<"High Priority Event Processing Failed">>
                    ELSE <<"Standard Priority Event Processing Failed">>

\* Variant of HandleFailedProcessing: a failed publish is tried again by the
\* same handler instead of being raised to the catch block.
HandleFailedProcessingRetried(g) ==
  /\ h[g].pc = "returned"
  /\ ~ProcessingResult(h[g])
  /\ \E pub \in {"ok", "error"} :
       /\ ProducerCanSend(pub)
       /\ LET hh == h[g]
              q == QueueFailedMessage(hh, dlq, "router", hh.msg.topic, hh.msg.value,
                                      DLQMetadata(hh.msg.topic, hh.msg.partition,
                                                  hh.msg.offset, ProcessingFailedReason(g)),
                                      pub)
          IN /\ dlq' = q.dlq
             /\ SetH(g, IF q.threw THEN q.h ELSE [q.h EXCEPT !.pc = "done"])
  /\ UNCHANGED <<store, committed, delivered, conn, cron, boot>>

\* Variant of HandleFailedProcessing: the router queues the record the
\* processor was handed instead of the raw message value.
HandleFailedProcessingEventRecord(g) ==
  /\ h[g].pc = "returned"
  /\ ~ProcessingResult(h[g])
  /\ \E pub \in {"ok", "error"} :
       /\ ProducerCanSend(pub)
       /\ LET hh == h[g]
              q == QueueFailedMessage(hh, dlq, "router", hh.msg.topic,
                                      StringifyEvent(EventAsRecord(hh.proc, hh.event)),
                                      DLQMetadata(hh.msg.topic, hh.msg.partition,
                                                  hh.msg.offset, ProcessingFailedReason(g)),
                                      pub)
          IN /\ dlq' = q.dlq
             /\ SetH(g, IF q.threw THEN [q.h EXCEPT !.pc = "caught", !.error = PublishErr]
                                   ELSE [q.h EXCEPT !.pc = "done"])
  /\ UNCHANGED <<store, committed, delivered, conn, cron, boot>>

\* handleFailedProcessing: a false result is queued with the raw message value
HandleFailedProcessing(g) ==
  /\ h[g].pc = "returned"
  /\ ~ProcessingResult(h[g])
  /\ \E pub \in {"ok", "error"} :
       /\ ProducerCanSend(pub)
       /\ LET hh == h[g]
              q == QueueFailedMessage(hh, dlq, "router", hh.msg.topic, hh.msg.value,
                                      DLQMetadata(hh.msg.topic, hh.msg.partition,
                                                  hh.msg.offset, ProcessingFailedReason(g)),
                                      pub)
          IN /\ dlq' = q.dlq
             /\ SetH(g, IF q.threw THEN [q.h EXCEPT !.pc = "caught", !.error = PublishErr]
                                   ELSE [q.h EXCEPT !.pc = "done"])
  /\ UNCHANGED <<store, committed, delivered, conn, cron, boot>>

\* handleProcessingError: the catch block of the router queues the message
\* once more; a failure here leaves the per-message handler as a rejection
HandleProcessingError(g) ==
  /\ h[g].pc = "caught"
  /\ \E pub \in {"ok", "error"} :
       /\ ProducerCanSend(pub)
       /\ LET hh == h[g]
              q == QueueFailedMessage(hh, dlq, "routerCatch", hh.msg.topic, hh.msg.value,
                                      DLQMetadata(hh.msg.topic, hh.msg.partition,
                                                  hh.msg.offset, ReasonOf(hh.error)),
                                      pub)
          IN /\ dlq' = q.dlq
             /\ SetH(g, [q.h EXCEPT !.pc = IF q.threw THEN "thrown" ELSE "done"])
  /\ UNCHANGED <<store, committed, delivered, conn, cron, boot>>

\* ------------------------------------------------------------------------
\* Specification
\* ------------------------------------------------------------------------
Next ==
  \/ ProcessHighPriorityMessage
  \/ ProcessStandardPriorityMessage
  \/ \E g \in Groups : ProcessUserUpdateEventWithRetry(g)
  \/ \E g \in Groups : ProcessOrderUpdateEventWithRetry(g)
  \/ \E g \in Groups : ProcessProductEventWithRetry(g)
  \/ \E g \in Groups : ProcessRecommendationEvent(g)
  \/ \E g \in Groups : HandleFailedMessage(g)
  \/ \E g \in Groups : HandleFailedProcessing(g)
  \/ \E g \in Groups : HandleProcessingError(g)
  \/ \E g \in Groups : Commit(g)

Spec == Init /\ [][Next]_vars

\* ------------------------------------------------------------------------
\* Process crash and restart
\* ------------------------------------------------------------------------
\* The process dies while some message is in flight and is started again:
\* every handler in flight is lost with its call-stack state (retryCount,
\* pending delay); the store, the dead-letter topic and the committed
\* offsets are what they were; the connections are opened anew.
Crash ==
  /\ \E g \in Groups : h[g].pc \notin {"idle", "crashed"}
  /\ h' = [g \in Groups |->
             IF h[g].pc \in {"idle", "crashed"} THEN h[g]
             ELSE [IdleHandler EXCEPT !.pc = "crashed", !.msg = h[g].msg,
                                      !.lostAttempts = h[g].lostAttempts + h[g].attempts]]
  /\ conn' = [mongoose |-> TRUE, producer |-> TRUE, underway |-> {}]
  /\ UNCHANGED <<store, dlq, committed, delivered, cron, boot>>

SpecCrash == Init /\ [][Next \/ Crash]_vars

\* ------------------------------------------------------------------------
\* Shutdown signal
\* ------------------------------------------------------------------------
\* a processor or the router is still working on the group's message
InChain(hh) ==
  hh.pc \in {"user", "order", "product", "rec", "escalate", "returned", "caught"}

\* handleShutdown (SIGTERM, SIGINT): closes the mongoose connection and
\* disconnects the shared producer at once; it neither stops the two
\* priority consumers nor waits for a handler in flight, and the process
\* does not exit.
HandleShutdown ==
  /\ conn.producer /\ conn.mongoose
  /\ conn' = [mongoose |-> FALSE, producer |-> FALSE,
              underway |-> {g \in Groups : InChain(h[g])}]
  /\ UNCHANGED <<h, store, dlq, committed, delivered, cron, boot>>

SpecShutdown == Init /\ [][Next \/ HandleShutdown]_vars

\* ------------------------------------------------------------------------
\* Vocabulary of the properties
\* ------------------------------------------------------------------------
\* the per-message handler has resolved (done) or rejected (thrown)
Finished(hh) == hh.pc \in {"done", "thrown"}

\* the envelopes this handling put on the dead-letter topic
Published(hh) == SelectSeq(hh.pubs, LAMBDA x : x.ok)

PublishedBy(hh, by) == SelectSeq(hh.pubs, LAMBDA x : x.ok /\ x.by = by)

OnDeadLetterTopic(env) == \E i \in DOMAIN dlq : dlq[i] = env

InStore(rec) == \E i \in DOMAIN store : store[i] = rec

MaxRetriesOf(proc) ==
  CASE proc = "user" -> UserMaxRetries
    [] proc = "order" -> OrderMaxRetries
    [] proc = "product" -> ProductMaxRetries
    [] OTHER -> RecMaxRetries

BaseDelayOf(proc) ==
  CASE proc = "user" -> UserBaseDelay
    [] proc = "order" -> OrderBaseDelay
    [] proc = "product" -> ProductBaseDelay
    [] OTHER -> RecDelayUnit

PriorityOf(proc) == IF proc \in {"user", "order"} THEN "critical" ELSE "standard"

\* ------------------------------------------------------------------------
\* C1
\* ------------------------------------------------------------------------
\* C1 (as claimed): for every consumed message with a non-empty body, under
\* every pattern of lookup, store, mail and publish outcomes, the handling
\* ends in exactly one of: the processor returned true, or an envelope for
\* the message is on the dead-letter topic.
C1_ExactlyOneOutcome ==
  \A g \in Groups :
    (Finished(h[g]) /\ h[g].msg.value.kind \notin {"null", "empty"})
      => ((h[g].returned = "true") # (Len(Published(h[g])) >= 1))

\* C1 (what the code does guarantee): for every consumed message whose body
\* parses to a JSON object, the handling ends in exactly one of: success (the
\* processor returned true and no envelope was published) or dead-letter
\* escalation (the processor did not return true and at least one envelope
\* for the message is on the dead-letter topic); the only handling that ends
\* in neither is one whose every dead-letter publish failed, and it ends
\* with the publish error raised out of the per-message handler.
C1_OutcomeOrRaisedPublishFailure ==
  \A g \in Groups :
    LET hh == h[g] IN
    (Finished(hh) /\ hh.msg.value.kind = "object")
      => \/ /\ hh.returned = "true"
            /\ hh.pubs = <<>>
            /\ hh.pc = "done"
         \/ /\ hh.returned # "true"
            /\ Len(Published(hh)) >= 1
            /\ \A i \in DOMAIN hh.pubs : hh.pubs[i].ok => OnDeadLetterTopic(hh.pubs[i].env)
         \/ /\ hh.returned # "true"
            /\ Published(hh) = <<>>
            /\ Len(hh.pubs) >= 2
            /\ hh.pc = "thrown"

\* C1 witness: one handling ended in success while another ended in
\* dead-letter escalation.
C1_Witness ==
  /\ h["critical"].pc = "done" /\ h["critical"].returned = "true"
  /\ Len(h["critical"].records) = 1
  /\ h["standard"].pc = "done" /\ h["standard"].returned = "false"
  /\ Len(Published(h["standard"])) >= 1

\* ------------------------------------------------------------------------
\* C2
\* ------------------------------------------------------------------------
\* C2 (as claimed): when persistence failed on more than maxRetries attempts
\* of an event and dead-letter publishing works, the processor returns false,
\* no record is created, and exactly one envelope is published for the
\* message, with the message of the last error as reason and the partition
\* and offset of the message.
C2_ExactlyOneEnvelope ==
  \A g \in Groups :
    LET hh == h[g] IN
    (/\ Finished(hh)
     /\ hh.proc # "none"
     /\ hh.storeErrs > MaxRetriesOf(hh.proc)
     /\ \A i \in DOMAIN hh.pubs : hh.pubs[i].ok)
      => /\ hh.returned = "false"
         /\ hh.records = <<>>
         /\ Len(Published(hh)) = 1
         /\ Published(hh)[1].env.value.metadata.reason = hh.error
         /\ Published(hh)[1].env.value.metadata.partition = hh.msg.partition
         /\ Published(hh)[1].env.value.metadata.offset = hh.msg.offset

\* ------------------------------------------------------------------------
\* C3
\* ------------------------------------------------------------------------
\* the recipient of the event was resolved whenever it was looked up, and
\* every store write of the handling succeeded
ResolvableAndStoreWorks(hh) ==
  /\ hh.event.userId # ""
  /\ hh.seen \cap {"lookupError", "noEmail", "storeError"} = {}

FirstAttemptSuccess(hh) ==
  /\ hh.returned = "true"
  /\ hh.attempts = 1
  /\ Len(hh.records) = 1
  /\ hh.records[1].priority = PriorityOf(hh.proc)
  /\ \E i \in DOMAIN store : store[i].priority = PriorityOf(hh.proc)
                               /\ store[i].type = hh.records[1].type
  /\ hh.pubs = <<>>

\* C3 (as claimed): for every event with a resolvable recipient and a store
\* whose create always succeeds, each of the four processors returns true on
\* the first attempt and creates exactly one record, of priority critical
\* for account and order events and standard for catalog and recommendation
\* events, and no envelope is published.
C3_OneRecordFirstAttempt ==
  \A g \in Groups :
    (Finished(h[g]) /\ h[g].proc # "none" /\ ResolvableAndStoreWorks(h[g]))
      => FirstAttemptSuccess(h[g])

\* C3 (amended): the same, where for a recommendation event the event must
\* in addition pass validation and the user must have opted in to
\* recommendations.
C3_OneRecordFirstAttemptOptedIn ==
  \A g \in Groups :
    (/\ Finished(h[g])
     /\ h[g].proc # "none"
     /\ ResolvableAndStoreWorks(h[g])
     /\ (h[g].proc = "rec" => (RecValidateEvent(h[g].event) /\ "optOut" \notin h[g].seen)))
      => FirstAttemptSuccess(h[g])

\* C3 witness: a catalog or recommendation event and an account or order
\* event were each handled with a working lookup and store.
C3_Witness ==
  /\ h["critical"].pc = "done" /\ ResolvableAndStoreWorks(h["critical"])
  /\ Len(h["critical"].records) = 1
  /\ h["standard"].pc = "done" /\ h["standard"].proc = "rec"
  /\ ResolvableAndStoreWorks(h["standard"])
  /\ Len(h["standard"].records) = 1

\* ------------------------------------------------------------------------
\* C4
\* ------------------------------------------------------------------------
NonDecreasing(seq) == \A i \in 1..(Len(seq) - 1) : seq[i] <= seq[i + 1]

\* C4 (as claimed): in every retry chain of every processor the delay before
\* attempt i+1, after the failure of attempt i counted from 0, is
\* 2^i * baseDelay of the processor, and the delays are non-decreasing.
C4_DelayIsPow2TimesBase ==
  \A g \in Groups :
    /\ \A i \in DOMAIN h[g].delays :
         h[g].delays[i] = Pow2(i - 1) * BaseDelayOf(h[g].proc)
    /\ NonDecreasing(h[g].delays)

\* C4 (amended): in the account, order and catalog processors the delay
\* after the failure of attempt i is 2^i * baseDelay (500, 1000 and 500 ms);
\* in the recommendation processor it is 2^(i+1) * 1000 ms, the counter being
\* incremented before the delay is computed; in all four the delays are
\* non-decreasing along the chain.
C4_DelayPerProcessor ==
  \A g \in Groups :
    /\ \A i \in DOMAIN h[g].delays :
         h[g].delays[i] = IF h[g].proc = "rec"
                            THEN Pow2(i) * 1000
                            ELSE Pow2(i - 1) * BaseDelayOf(h[g].proc)
    /\ NonDecreasing(h[g].delays)
    /\ Len(h[g].delays) = IF h[g].proc = "rec" /\ h[g].retryCount = RecMaxRetries
                             THEN h[g].retryCount - 1
                             ELSE h[g].retryCount

\* C4 witness: an account chain has backed off five times while a
\* recommendation chain has backed off twice.
C4_Witness ==
  /\ h["critical"].proc = "user" /\ Len(h["critical"].delays) = 5
  /\ h["standard"].proc = "rec" /\ Len(h["standard"].delays) = 2

\* ------------------------------------------------------------------------
\* C5
\* ------------------------------------------------------------------------
\* persistence failed exactly k times (nothing else failed) and then succeeded
FailedKThenPersisted(hh, k) ==
  /\ Finished(hh)
  /\ hh.proc # "none"
  /\ hh.storeErrs = k
  /\ hh.seen \cap {"lookupError", "noEmail", "optOut"} = {}
  /\ hh.storeCalls = k + 1

RetriedKTimes(hh, k) ==
  /\ hh.returned = "true"
  /\ Len(hh.delays) = k
  /\ hh.attempts = k + 1
  /\ Len(hh.records) = 1
  /\ InStore(hh.records[1])

\* C5 (as claimed): for every processor and every k < maxRetries, if
\* persistence fails exactly k times and then succeeds, the processor retries
\* exactly k times, returns true, and the single record it creates has
\* metadata.retryCount = k.
C5_RetryCountInRecord ==
  \A g \in Groups : \A k \in 0..5 :
    (FailedKThenPersisted(h[g], k) /\ k < MaxRetriesOf(h[g].proc))
      => /\ RetriedKTimes(h[g], k)
         /\ h[g].records[1].metadata.hasRetryCount
         /\ h[g].records[1].metadata.retryCount = k

\* C5 (amended): the same for the account, order and catalog processors; the
\* recommendation processor also retries exactly k times and returns true,
\* but the record it creates carries no metadata.retryCount.
C5_RetryCountInRecordExceptRec ==
  \A g \in Groups : \A k \in 0..5 :
    (FailedKThenPersisted(h[g], k) /\ k < MaxRetriesOf(h[g].proc))
      => /\ RetriedKTimes(h[g], k)
         /\ IF h[g].proc = "rec"
              THEN ~h[g].records[1].metadata.hasRetryCount
              ELSE /\ h[g].records[1].metadata.hasRetryCount
                   /\ h[g].records[1].metadata.retryCount = k

\* C5 witness: an account event persisted after four failed store writes and
\* a recommendation event after two.
C5_Witness ==
  /\ h["critical"].proc = "user" /\ FailedKThenPersisted(h["critical"], 4)
  /\ h["standard"].proc = "rec" /\ FailedKThenPersisted(h["standard"], 2)

\* ------------------------------------------------------------------------
\* C6
\* ------------------------------------------------------------------------
\* the processor handed the event to the dead-letter router
EscalatedByProcessor(hh) ==
  hh.pc = "escalate" \/ \E i \in DOMAIN hh.pubs : hh.pubs[i].by = "processor"

\* C6 (as claimed): each processor (account 5, order 3, catalog 5,
\* recommendation 3) stops retrying exactly when the attempt counter equals
\* its maxRetries: an event whose every attempt fails is attempted
\* maxRetries + 1 times and only then forwarded to the dead-letter router,
\* after which the processor returns false.
C6_StopsAfterMaxRetriesPlusOne ==
  \A g \in Groups :
    LET hh == h[g] IN
    hh.proc # "none" =>
      /\ hh.attempts <= MaxRetriesOf(hh.proc) + 1
      /\ EscalatedByProcessor(hh) =>
           /\ hh.attempts = MaxRetriesOf(hh.proc) + 1
           /\ hh.retryCount = MaxRetriesOf(hh.proc)
      /\ (\E i \in DOMAIN hh.pubs : hh.pubs[i].by = "processor") => hh.returned = "false"

AttemptBudget(proc) == IF proc = "rec" THEN RecMaxRetries ELSE MaxRetriesOf(proc) + 1

\* C6 (amended): the account, order and catalog processors attempt an
\* always-failing event maxRetries + 1 times (6, 4 and 6 attempts) and the
\* recommendation processor maxRetries times (3 attempts, 2 retries); each
\* forwards the event to the dead-letter router only after its last attempt,
\* with the attempt counter equal to maxRetries, and then returns false.
C6_StopsAfterAttemptBudget ==
  \A g \in Groups :
    LET hh == h[g] IN
    hh.proc # "none" =>
      /\ hh.attempts <= AttemptBudget(hh.proc)
      /\ EscalatedByProcessor(hh) =>
           /\ hh.attempts = AttemptBudget(hh.proc)
           /\ hh.retryCount = MaxRetriesOf(hh.proc)
      /\ (\E i \in DOMAIN hh.pubs : hh.pubs[i].by = "processor") => hh.returned = "false"

\* C6 witness: an account event and a recommendation event have both been
\* forwarded to the dead-letter router by their processors.
C6_Witness ==
  /\ h["critical"].proc = "user" /\ h["critical"].returned = "false"
  /\ Len(PublishedBy(h["critical"], "processor")) = 1
  /\ h["standard"].proc = "rec" /\ h["standard"].returned = "false"
  /\ Len(PublishedBy(h["standard"], "processor")) = 1

\* ------------------------------------------------------------------------
\* C7
\* ------------------------------------------------------------------------
\* C7 (as claimed): for an order event whose store write throws on every
\* attempt, exactly three store writes are attempted, then one envelope with
\* the captured reason is published and the processor returns false.
C7_OrderDeadLetteredAfterThree ==
  \A g \in Groups :
    LET hh == h[g] IN
    (/\ Finished(hh)
     /\ hh.proc = "order"
     /\ hh.storeCalls >= 1
     /\ hh.storeErrs = hh.attempts
     /\ \A i \in DOMAIN hh.pubs : hh.pubs[i].ok)
      => /\ hh.storeCalls = 3
         /\ Len(Published(hh)) = 1
         /\ Published(hh)[1].env.value.metadata.reason = hh.error
         /\ hh.returned = "false"

C9_MissingEmailIsSoftSuccess ==
  \A g \in Groups :
    LET hh == h[g] IN
    (hh.proc \in {"user", "order", "rec"} /\ "noEmail" \in hh.seen)
      => /\ hh.returned = "true"
         /\ hh.pc = "done"
         /\ hh.records = <<>>
         /\ hh.storeCalls = 0
         /\ hh.pubs = <<>>

\* ------------------------------------------------------------------------
\* C10
\* ------------------------------------------------------------------------
\* C10: a message with an empty body (a null value or a zero-length value),
\* on either consumer group, never invokes a processor, creates no record
\* and publishes no dead-letter envelope.
C10_EmptyBodyTouchesNothing ==
  \A g \in Groups :
    LET hh == h[g] IN
    (hh.pc # "idle" /\ hh.msg.value.kind \in {"null", "empty"})
      => /\ hh.proc = "none"
         /\ hh.attempts = 0
         /\ hh.calls = <<>>
         /\ hh.records = <<>>
         /\ hh.pubs = <<>>
         /\ hh.pc \in {"done", "thrown"}
         /\ \A i \in DOMAIN dlq :
              dlq[i].key # MessageKey(hh.msg.topic, hh.msg.partition, hh.msg.offset)

\* C10 witness: the critical group has handled a message with a null value
\* and the standard group one with a zero-length value.
C10_Witness ==
  /\ h["critical"].pc = "done" /\ h["critical"].msg.value.kind = "null"
  /\ h["standard"].pc = "thrown" /\ h["standard"].msg.value.kind = "empty"

\* ------------------------------------------------------------------------
\* C11
\* ------------------------------------------------------------------------
\* C11 (as claimed): a message whose body is malformed (not parseable as
\* JSON, or parseable but not an object) is dropped: the per-message handler
\* completes normally without raising, no processor is invoked and no
\* dead-letter envelope is published.
C11_MalformedIsDropped ==
  \A g \in Groups :
    LET hh == h[g] IN
    (hh.pc # "idle" /\ hh.msg.value.kind \in {"badjson", "jsonnull"})
      => /\ hh.pc = "done"
         /\ hh.proc = "none"
         /\ hh.pubs = <<>>

\* ------------------------------------------------------------------------
\* C12
\* ------------------------------------------------------------------------
\* a publish of this handling that failed
FailedPublish(hh, i) == i \in DOMAIN hh.pubs /\ ~hh.pubs[i].ok

PastProcessor(hh) ==
  hh.proc # "none" /\ hh.pc \in {"returned", "caught", "done", "thrown"}

\* C13: for every event and every failure pattern of identity lookup, store
\* write and mail transport, no exception escapes a processor's entry point:
\* once the handling has left the processor, the processor has returned true
\* or false, and the router's catch block is entered only for the failure of
\* a dead-letter publish.
C13_NoExceptionEscapesProcessor ==
  \A g \in Groups :
    LET hh == h[g] IN
    /\ PastProcessor(hh) => hh.returned \in {"true", "false"}
    /\ (hh.proc # "none" /\ hh.pc = "caught")
         => /\ hh.error = PublishErr
            /\ hh.pubs # <<>>
            /\ FailedPublish(hh, Len(hh.pubs))

\* C13 witness: an account chain that met a failing lookup and a failing
\* store write has returned false, and a recommendation chain whose
\* validation raised has returned false.
C13_Witness ==
  /\ h["critical"].proc = "user"
  /\ {"lookupError", "storeError"} \subseteq h["critical"].seen
  /\ h["critical"].returned = "false"
  /\ h["standard"].proc = "rec"
  /\ h["standard"].event.recs = "nullitem"
  /\ h["standard"].returned = "false"

\* ------------------------------------------------------------------------
\* C14
\* ------------------------------------------------------------------------
\* C14 (as claimed): in every execution in which a processor returns false,
\* maxRetries retries were performed and the last attempt failed with a
\* raised error of the store write.
C14_FalseOnlyAfterMaxRetries ==
  \A g \in Groups :
    LET hh == h[g] IN
    hh.returned = "false"
      => /\ Len(hh.delays) = MaxRetriesOf(hh.proc)
         /\ hh.error = StoreErr \/ hh.error = Wrap("Notification processing failed: ", StoreErr)

\* the recommendation processor rejected the event: validateEvent answered
\* false on the first pass
RejectedByValidation(hh) ==
  /\ hh.proc = "rec"
  /\ ~RecValidateEvent(hh.event) /\ ~RecValidateEventThrows(hh.event)
  /\ hh.attempts = 1 /\ hh.delays = <<>>
  /\ hh.calls = <<>>
  /\ ~EscalatedByProcessor(hh)

\* the retry budget was spent and the last attempt raised: its error is the
\* reason of the envelope made for the processor
BudgetExhausted(hh) ==
  /\ hh.attempts = AttemptBudget(hh.proc)
  /\ Len(hh.delays) = AttemptBudget(hh.proc) - 1
  /\ hh.records = <<>>
  /\ hh.pubs # <<>>
  /\ hh.pubs[1].by = "processor"
  /\ hh.pubs[1].env.value.metadata.reason \notin {NoError, <<"Unknown error">>}

\* C14 (amended): a processor returns true on success or soft-success (a
\* record was created, or the lookup answered without email or with an
\* opt-out).  It returns false either when the recommendation processor
\* rejects an event that fails validation, at once and without retry, or
\* when the retry budget is exhausted and the last attempt raised an error
\* of any kind (identity lookup, validation or store write): after
\* maxRetries retries in the account, order and catalog processors and
\* after maxRetries - 1 retries in the recommendation processor.
C14_FalseOnlyAfterBudgetOrRejection ==
  \A g \in Groups :
    LET hh == h[g] IN
    /\ hh.returned = "false" => (RejectedByValidation(hh) \/ BudgetExhausted(hh))
    /\ hh.returned = "true"
         => /\ hh.attempts >= 1
            /\ ~EscalatedByProcessor(hh)
            /\ hh.records # <<>> \/ hh.seen \cap {"noEmail", "optOut"} # {}

\* C14 witness: an order chain returned false after its budget was spent on
\* a lookup failure, and a recommendation event was rejected by validation.
C14_Witness ==
  /\ h["critical"].proc = "order" /\ h["critical"].returned = "false"
  /\ BudgetExhausted(h["critical"])
  /\ h["critical"].storeCalls = 0 /\ "lookupError" \in h["critical"].seen
  /\ h["standard"].returned = "false" /\ RejectedByValidation(h["standard"])

\* ------------------------------------------------------------------------
\* C15
\* ------------------------------------------------------------------------
\* C15 (as claimed): a recommendation event that fails validation (missing
\* userId, recommendations not a non-empty list, or an item lacking
\* productId, name, numeric price or category) is rejected before any
\* identity-lookup, store or mail call: processRecommendationEvent returns
\* false on the first pass without incrementing the retry counter, without
\* backoff delay and without creating a record.
C15_InvalidRecommendationRejected ==
  \A g \in Groups :
    LET hh == h[g] IN
    (hh.proc = "rec" /\ hh.attempts >= 1 /\ ~RecValidateEvent(hh.event))
      => /\ hh.returned = "false"
         /\ hh.attempts = 1
         /\ hh.retryCount = 0
         /\ hh.delays = <<>>
         /\ hh.lookupCalls = 0 /\ hh.storeCalls = 0 /\ hh.mailCalls = 0
         /\ hh.records = <<>>

\* ------------------------------------------------------------------------
\* C16
\* ------------------------------------------------------------------------
\* a message of the group is being handled
InFlight(hh) == hh.pc \notin {"idle", "crashed"}

\* C16: within one consumer group handling is strictly sequential: the
\* handler of a group turns to another message only when no message of the
\* group was in flight, and the message in flight is given up only when its
\* whole chain (retries, backoff delays, dead-letter escalation) has
\* resolved, so at most one message per group is in flight.
C16_OneMessageInFlightPerGroup ==
  [][\A g \in Groups :
       h'[g].msg # h[g].msg
         => \/ ~InFlight(h[g]) /\ InFlight(h'[g])
            \/ h[g].pc = "done" /\ ~InFlight(h'[g])]_vars

\* C16 witness: the account chain of the critical group has spent its five
\* retries and is about to escalate; a further delivery is still possible
\* but the group cannot take it.
C16_Witness ==
  /\ h["critical"].pc = "escalate"
  /\ Len(h["critical"].delays) = UserMaxRetries
  /\ delivered < MaxMsgs
  /\ ~ENABLED ProcessHighPriorityMessage

\* ------------------------------------------------------------------------
\* C17
\* ------------------------------------------------------------------------
\* C17: a consumer group does not advance the committed offset of a message
\* until its handling has completed; when the process crashes before the
\* commit the message is delivered again and its retry chain restarts with
\* attempt 0, so the metadata.retryCount of a persisted record counts only
\* the retries of the chain that created it, whatever was attempted before
\* the crash.
C17_CommitAfterHandlingRetryStateLost ==
  \A g \in Groups :
    LET hh == h[g] IN
    /\ hh.pc # "idle" => committed[hh.msg.topic][hh.msg.partition] = hh.msg.offset
    /\ hh.pc = "crashed" => (hh.retryCount = 0 /\ hh.attempts = 0 /\ hh.delays = <<>>)
    /\ hh.proc \in {"user", "order", "product"} => hh.retryCount = Len(hh.delays)
    /\ hh.attempts <= AttemptBudget(hh.proc)
    /\ \A i \in DOMAIN hh.records :
         hh.records[i].metadata.hasRetryCount
           => /\ hh.records[i].metadata.retryCount = Len(hh.delays)
              /\ hh.records[i].metadata.retryCount = hh.attempts - 1

\* C17 witness: the process crashed after two failed attempts on an account
\* event; the message was delivered again, persisted on the first attempt of
\* the new chain with retryCount 0, and its offset is not yet committed.
C17_Witness ==
  \E g \in Groups :
    /\ h[g].proc = "user" /\ h[g].pc = "done"
    /\ h[g].lostAttempts = 2
    /\ Len(h[g].records) = 1
    /\ h[g].records[1].metadata.retryCount = 0
    /\ committed[h[g].msg.topic][h[g].msg.partition] = h[g].msg.offset

\* ------------------------------------------------------------------------
\* C18
\* ------------------------------------------------------------------------
\* C18: the critical group and the standard group are independent: in every
\* reachable state, whatever the other group is doing, a group that is idle
\* can take its next message (as long as a delivery remains) and a group
\* with a message in flight can take the next step of its handling, up to
\* the commit; neither group ever waits on the other.
C18_GroupsIndependent ==
  \A g \in Groups :
    LET hh == h[g] IN
    /\ (hh.pc = "idle" /\ delivered < MaxMsgs) => ENABLED Deliver(g)
    /\ (hh.pc = "thrown" /\ delivered < MaxMsgs) => ENABLED Redeliver(g)
    /\ hh.pc = "user" => ENABLED ProcessUserUpdateEventWithRetry(g)
    /\ hh.pc = "order" => ENABLED ProcessOrderUpdateEventWithRetry(g)
    /\ hh.pc = "product" => ENABLED ProcessProductEventWithRetry(g)
    /\ hh.pc = "rec" => ENABLED ProcessRecommendationEvent(g)
    /\ hh.pc = "escalate" => ENABLED HandleFailedMessage(g)
    /\ hh.pc = "returned" => ENABLED HandleFailedProcessing(g)
    /\ hh.pc = "caught" => ENABLED HandleProcessingError(g)
    /\ hh.pc = "done" => ENABLED Commit(g)

\* C18 witness: the critical group is deep in an account retry chain (three
\* backoffs so far) while the standard group, idle, can take a message.
C18_Witness ==
  /\ h["critical"].pc = "user" /\ h["critical"].retryCount = 3
  /\ h["standard"].pc = "idle"
  /\ ENABLED Deliver("standard")

\* ------------------------------------------------------------------------
\* C19
\* ------------------------------------------------------------------------
\* C19 (as claimed): a shutdown signal takes effect only between messages:
\* the store connection and the shared publisher connection are not closed
\* under a retry chain that is in flight when the signal arrives, so its
\* remaining attempts and its escalation behave as without the signal.
C19_ShutdownOnlyBetweenMessages ==
  /\ conn.underway = {}
  /\ \A g \in Groups : InChain(h[g]) => (conn.mongoose /\ conn.producer)

\* ------------------------------------------------------------------------
\* C20
\* ------------------------------------------------------------------------
\* the envelopes on the dead-letter topic that carry the key of msg
WithKeyOf(msg) ==
  {i \in DOMAIN dlq : dlq[i].key = MessageKey(msg.topic, msg.partition, msg.offset)}

\* C20: every dead-letter envelope is on the single fixed dead-letter topic
\* with the key made of the original topic, partition and offset of the
\* failed message, and keys are not deduplicated: every successful publish
\* of a handling adds an envelope, so escalating the same coordinates twice
\* leaves two envelopes with identical keys.
C20_FixedTopicKeyNotDeduplicated ==
  /\ \A i \in DOMAIN dlq :
       LET m == dlq[i].value.metadata IN
       /\ dlq[i].topic = DLQ_TOPIC
       /\ dlq[i].key = MessageKey(m.originalTopic, m.partition, m.offset)
  /\ \A g \in Groups :
       LET hh == h[g] IN
       /\ \A i \in DOMAIN hh.pubs :
            /\ hh.pubs[i].env.topic = DLQ_TOPIC
            /\ hh.pubs[i].env.key = MessageKey(hh.msg.topic, hh.msg.partition, hh.msg.offset)
            /\ hh.pubs[i].ok => OnDeadLetterTopic(hh.pubs[i].env)
       /\ Cardinality(WithKeyOf(hh.msg)) >= Len(Published(hh))

\* C20 witness: the same message was escalated twice with both publishes
\* succeeding, and two envelopes with its key are on the dead-letter topic.
C20_Witness ==
  \E g \in Groups :
    /\ Len(Published(h[g])) = 2
    /\ Cardinality(WithKeyOf(h[g].msg)) = 2
    /\ \E i, j \in DOMAIN dlq : i # j /\ dlq[i].key = dlq[j].key

\* ------------------------------------------------------------------------
\* Router entered with a topic none of its branches names
\* ------------------------------------------------------------------------
\* processHighPriorityMessage / processStandardPriorityMessage called with a
\* message of a topic outside the if-chain: the value is checked, parsed and
\* logged as for any topic, no branch is taken and processingResult keeps
\* its initial value false.
DeliverUnrouted(g) ==
  /\ h[g].pc = "idle"
  /\ delivered < MaxMsgs
  /\ \E p \in Partitions : \E v \in Values(UnroutedTopic) :
       SetH(g, Dispatch([topic |-> UnroutedTopic, partition |-> p,
                         offset |-> committed[UnroutedTopic][p], value |-> v]))
  /\ delivered' = delivered + 1
  /\ UNCHANGED <<store, dlq, committed, conn, cron, boot>>

SpecUnrouted == Init /\ [][Next \/ \E g \in Groups : DeliverUnrouted(g)]_vars

C22_FailedMailIsDeadLettered ==
  \A g \in Groups :
    LET hh == h[g] IN
    ("mailError" \in hh.seen /\ Finished(hh)) =>
      /\ Len(Published(hh)) >= 1
      /\ WithKeyOf(hh.msg) # {}

\* ------------------------------------------------------------------------
\* C23
\* ------------------------------------------------------------------------
\* every published envelope of the handling decodes to the bytes consumed
PreservesRawBytes(hh) ==
  \A i \in DOMAIN hh.pubs :
    hh.pubs[i].ok => Base64Decode(hh.pubs[i].env.value.originalMessage) = hh.msg.value

\* C23: a dead-letter envelope is created once per terminal failure and
\* preserves the failed message: a finished handling has published at most
\* one envelope, and base64-decoding the originalMessage of every envelope,
\* whether escalated by a processor or by the router, yields exactly the raw
\* bytes of the consumed message.
C23_OncePerFailureRawBytesPreserved ==
  \A g \in Groups :
    LET hh == h[g] IN
    /\ Finished(hh) => Len(Published(hh)) <= 1
    /\ PreservesRawBytes(hh)

\* ------------------------------------------------------------------------
\* C24
\* ------------------------------------------------------------------------
MissingUserIdOrder(hh) == hh.proc = "order" /\ hh.event.userId = ""

InvalidOrderReason == <<"Invalid Order Event - Missing userId">>

\* no attempt reached a collaborator and nothing was persisted
ValidationFailedBeforeAnyCall(hh) ==
  /\ hh.lookupCalls = 0 /\ hh.storeCalls = 0 /\ hh.mailCalls = 0
  /\ hh.calls = <<>>
  /\ hh.records = <<>>
  /\ \A i \in DOMAIN store : ~(store[i].type = "ORDER_UPDATE" /\ store[i].userId = "")

\* the budget of the order processor was spent on the event and the
\* processor handed it to the dead-letter router with the validation error
DeadLetteredOnExhaustion(hh) ==
  /\ hh.returned = "false"
  /\ hh.attempts = OrderMaxRetries + 1
  /\ hh.retryCount = OrderMaxRetries
  /\ hh.pubs # <<>>
  /\ hh.pubs[1].by = "processor"
  /\ hh.pubs[1].env.value.metadata.reason = InvalidOrderReason

\* C24 (as claimed): an order-lifecycle event without a userId fails
\* validation before any identity-lookup, store or mail call on every
\* attempt; the failure is retried at once, with no delay between the
\* attempts, under the retry budget of any other error, and dead-lettered on
\* exhaustion, with no record created.
C24_ValidationFailureRetriedAtOnce ==
  \A g \in Groups :
    LET hh == h[g] IN
    MissingUserIdOrder(hh) =>
      /\ ValidationFailedBeforeAnyCall(hh)
      /\ hh.attempts <= OrderMaxRetries + 1
      /\ \A i \in DOMAIN hh.delays : hh.delays[i] = 0
      /\ PastProcessor(hh) => DeadLetteredOnExhaustion(hh)

\* C24 (amended): an order-lifecycle event without a userId fails validation
\* before any identity-lookup, store or mail call on every attempt; the
\* failure is handled as any other error: each retry follows the backoff
\* delay 2^retryCount * 1000 ms (1000, 2000, 4000), the attempt counter is
\* incremented per retry, and after the attempt with retryCount = 3 the
\* event is handed to the dead-letter router with the validation error as
\* reason and the processor returns false, with no record created.
C24_ValidationFailureRetriedWithBackoff ==
  \A g \in Groups :
    LET hh == h[g] IN
    MissingUserIdOrder(hh) =>
      /\ ValidationFailedBeforeAnyCall(hh)
      /\ hh.attempts <= OrderMaxRetries + 1
      /\ hh.delays = [i \in 1..Len(hh.delays) |-> Pow2(i - 1) * OrderBaseDelay]
      /\ hh.pc = "order" => (hh.retryCount = hh.attempts /\ Len(hh.delays) = hh.attempts)
      /\ PastProcessor(hh) => (DeadLetteredOnExhaustion(hh) /\ Len(hh.delays) = OrderMaxRetries)

\* C24 witness: an order event without userId, attempted four times with
\* the delays 1000, 2000, 4000, dead-lettered and committed past.
C24_Witness ==
  \E g \in Groups :
    /\ MissingUserIdOrder(h[g])
    /\ h[g].pc = "done"
    /\ h[g].attempts = OrderMaxRetries + 1
    /\ h[g].delays = <<1000, 2000, 4000>>
    /\ Len(PublishedBy(h[g], "processor")) = 1

\* ------------------------------------------------------------------------
\* C25
\* ------------------------------------------------------------------------
\* C25: recipient opt-out is absorbed silently: once the identity lookup of
\* a recommendation event has answered with a user who has not opted in to
\* recommendations, the processor has returned true and the handling is
\* over; no record was created and the mail transport was not called, the
\* attempt made no call after the lookup, no retry followed it, and neither
\* the processor nor the router published or tried to publish an envelope
\* in this handling of the message.
C25_OptOutAbsorbedSilently ==
  \A g \in Groups :
    LET hh == h[g] IN
    (hh.proc = "rec" /\ "optOut" \in hh.seen) =>
      /\ hh.returned = "true"
      /\ hh.pc = "done"
      /\ hh.records = <<>>
      /\ hh.mailCalls = 0
      /\ hh.calls = <<"lookup">>
      /\ Len(hh.delays) = hh.attempts - 1
      /\ hh.pubs = <<>>

\* C25 witness: a recommendation event whose user had opted out, absorbed
\* on the first attempt with nothing stored or published.
C25_Witness ==
  \E g \in Groups :
    /\ h[g].proc = "rec" /\ "optOut" \in h[g].seen
    /\ h[g].attempts = 1 /\ h[g].pc = "done"
    /\ h[g].returned = "true"

\* ------------------------------------------------------------------------
\* C26
\* ------------------------------------------------------------------------
\* the message in flight is the oldest uncommitted one of its partition
OldestUncommitted(hh, offsets) ==
  hh.msg.offset = offsets[hh.msg.topic][hh.msg.partition]

\* the envelopes of one topic and partition lie on the dead-letter topic in
\* the order of their offsets
EnvelopesInOffsetOrder(dq) ==
  \A i, j \in DOMAIN dq :
    (/\ i < j
     /\ dq[i].value.metadata.originalTopic = dq[j].value.metadata.originalTopic
     /\ dq[i].value.metadata.partition = dq[j].value.metadata.partition)
      => dq[i].value.metadata.offset <= dq[j].value.metadata.offset

\* C26: within one partition of one topic, messages reach their terminal
\* outcome in delivery order: a message is worked on only while it is the
\* oldest uncommitted message of its partition, so every message with a
\* smaller offset has been concluded before; every store write and every
\* dead-letter publish is made by the handling of such a message; the
\* committed offset moves forward by one, past a handling that has resolved;
\* and the envelopes of a partition appear in the order of their offsets.
C26_DeliveryOrderPerPartition ==
  [][/\ \A g \in Groups : InFlight(h'[g]) => OldestUncommitted(h'[g], committed')
     /\ (store' # store \/ dlq' # dlq) =>
          \E g \in Groups :
            /\ InFlight(h[g]) /\ OldestUncommitted(h[g], committed)
            /\ h'[g].msg = h[g].msg
            /\ committed' = committed
            /\ \A g2 \in Groups \ {g} : h'[g2] = h[g2]
            /\ Len(store') = Len(store) + (Len(h'[g].records) - Len(h[g].records))
            /\ Len(dlq') = Len(dlq) + (Len(Published(h'[g])) - Len(Published(h[g])))
     /\ committed' # committed =>
          \E g \in Groups :
            /\ h[g].pc = "done" /\ h'[g].pc = "idle"
            /\ committed' = [committed EXCEPT ![h[g].msg.topic][h[g].msg.partition] = @ + 1]
     /\ EnvelopesInOffsetOrder(dlq')
    ]_vars

\* C26 witness: two messages of one partition, offsets 3 and 4, both
\* dead-lettered, the envelope of the first before that of the second.
C26_Witness ==
  \E i, j \in DOMAIN dlq :
    /\ i < j
    /\ dlq[i].value.metadata.originalTopic = dlq[j].value.metadata.originalTopic
    /\ dlq[i].value.metadata.offset = StartOffset
    /\ dlq[j].value.metadata.offset = StartOffset + 1

\* ------------------------------------------------------------------------
\* RecommendationEventProcessor: the periodic sweep (processPendingNotifications)
\* ------------------------------------------------------------------------
\* Notification.find({...}).limit(10)
RecSweepLimit == 10

\* concurrencyLimit
RecConcurrencyLimit == 5

\* Each instance of the processor schedules its own job ('*/5 * * * *'); the
\* model follows the runs of one job.

\* Documents of the collection that were not written through this service's
\* Notification model: recommendation documents with emailSent false and no
\* sentAt field.  Their users answer the sweep in a fixed way each: the mail
\* to the first bounces, the second is delivered, the third has opted out,
\* the fourth is unknown to the identity lookup.
ForeignUsers == <<"bounce", "ok", "optout", "gone">>

ForeignUser(i) == ForeignUsers[((i - 1) % Len(ForeignUsers)) + 1]

ForeignRecord(i) ==
  [NotificationRecord(ForeignUser(i), "email", "RECOMMENDATION", "standard", FALSE, 0)
     EXCEPT !.sentAt = "unset"]

\* the numbers of such documents the collection may hold
ForeignCounts == {1, 7, 12}

\* what the identity lookup, the mail transport and the save answer to a
\* send of the sweep for a document of userId: <<lookup, mail, save>>
SweepOutcomes(userId) ==
  CASE userId = "bounce" -> {<<"email", "error", "none">>}
    [] userId = "ok" -> {<<"email", "ok", "ok">>}
    [] userId = "optout" -> {<<"optout", "none", "ok">>}
    [] userId = "gone" -> {<<"error", "none", "none">>}
    [] OTHER -> {<<"error", "none", "none">>, <<"noemail", "none", "none">>,
                 <<"optout", "none", "ok">>, <<"optout", "none", "error">>,
                 <<"email", "error", "none">>,
                 <<"email", "ok", "ok">>, <<"email", "ok", "error">>}

\* the documents are in the collection before the service works on it
InsertForeign(n) ==
  /\ store = <<>>
  /\ delivered = 0
  /\ cron = IdleCron
  /\ store' = [i \in 1..n |-> ForeignRecord(i)]
  /\ UNCHANGED <<h, dlq, committed, delivered, conn, cron, boot>>

RECURSIVE MatchingFrom(_, _)
\* the positions, from i on, of the documents that the query of the sweep
\* matches: type RECOMMENDATION, emailSent false, no sentAt field
MatchingFrom(st, i) ==
  IF i > Len(st) THEN <<>>
  ELSE (IF /\ st[i].type = "RECOMMENDATION"
           /\ st[i].emailSent = FALSE
           /\ st[i].sentAt = "unset"
          THEN <<i>> ELSE <<>>) \o MatchingFrom(st, i + 1)

\* .limit(n)
Limit(seq, n) == SubSeq(seq, 1, IF Len(seq) < n THEN Len(seq) ELSE n)

\* the answer of Notification.find(...).limit(10), in the natural order of
\* the collection
PendingNotifications(st) == Limit(MatchingFrom(st, 1), RecSweepLimit)

\* createBatches: item of index k (from 0) goes to batch floor(k / size)
CreateBatches(items, size) ==
  [b \in 1..((Len(items) + size - 1) \div size) |->
     SubSeq(items, (b - 1) * size + 1,
            IF b * size < Len(items) THEN b * size ELSE Len(items))]

Elems(seq) == {seq[k] : k \in DOMAIN seq}

\* Variant of RecSendRejects: a failure inside the send is rethrown.
RecSendRejectsOnFailure(sent) ==
  sent.h.seen \cap {"resendLookupNull", "mailError", "saveError"} # {}

\* whether the promise of sendEmailNotification rejects: its catch block
\* logs every failure of the try block and returns
RecSendRejects(sent) == FALSE

\* the cron schedule fires: processPendingNotifications issues its query
RecSweepFire ==
  /\ cron.rec.pc = "idle"
  /\ cron' = [cron EXCEPT !.rec = [@ EXCEPT !.pc = "query", !.pending = <<>>, !.batch = 0,
                                            !.settled = {}, !.failed = {}]]
  /\ UNCHANGED <<h, store, dlq, committed, delivered, conn, boot>>

\* the query answers: nothing to do, or Promise.all over the sends of the
\* first batch, which all start at once
RecSweepSelect ==
  /\ cron.rec.pc = "query"
  /\ LET pend == PendingNotifications(store) IN
     cron' = [cron EXCEPT !.rec =
                IF pend = <<>> THEN [@ EXCEPT !.pc = "idle"]
                ELSE [@ EXCEPT !.pc = "sending", !.pending = pend, !.batch = 1,
                               !.inFlight = @ \cup Elems(CreateBatches(pend, RecConcurrencyLimit)[1])]]
  /\ UNCHANGED <<h, store, dlq, committed, delivered, conn, boot>>

\* one send of the batch in flight settles (sendEmailNotification on the
\* document the query returned).  Promise.all resolves when the last send of
\* the batch has resolved, and the loop turns to the next batch or the run
\* is over; it rejects with the first send that rejects, which ends the run
\* while the other sends go on.
RecSendSettle(r) ==
  /\ r \in cron.rec.inFlight
  /\ \E o \in SweepOutcomes(store[r].userId) :
       LET sent == RecSendEmailNotification(IdleHandler, store[r], o[1], o[2], o[3])
           batches == CreateBatches(cron.rec.pending, RecConcurrencyLimit)
           left == cron.rec.inFlight \ {r}
           s1 == [cron.rec EXCEPT
                    !.inFlight = left,
                    !.settled = @ \cup {r},
                    !.failed = IF sent.h.seen \cap {"resendLookupNull", "mailError", "saveError"} # {}
                                 THEN @ \cup {r} ELSE @,
                    !.mailed = IF sent.h.mailCalls > 0 THEN @ \cup {r} ELSE @]
       IN /\ store' = [store EXCEPT ![r] = sent.rec]
          /\ cron' = [cron EXCEPT !.rec =
                        IF s1.pc # "sending" THEN s1
                        ELSE IF RecSendRejects(sent) THEN [s1 EXCEPT !.pc = "idle"]
                        ELSE IF left # {} THEN s1
                        ELSE IF s1.batch < Len(batches)
                          THEN [s1 EXCEPT !.batch = @ + 1,
                                          !.inFlight = Elems(batches[s1.batch + 1])]
                          ELSE [s1 EXCEPT !.pc = "idle"]]
  /\ UNCHANGED <<h, dlq, committed, delivered, conn, boot>>

ProcessPendingNotifications ==
  \/ RecSweepFire
  \/ RecSweepSelect
  \/ \E r \in DOMAIN store : RecSendSettle(r)

\* the collection as the sweep may find it, and the runs of the sweep
SpecRecSweep ==
  Init /\ [][(\E n \in ForeignCounts : InsertForeign(n)) \/ ProcessPendingNotifications]_vars

\* The standard-priority group at work while the sweep runs on schedule.
\* node-cron fires the job every five minutes for as long as the process
\* lives, and every call a run awaits answers or times out, so the steps of
\* the sweep are taken again and again.
NextResend ==
  \/ ProcessStandardPriorityMessage
  \/ ProcessProductEventWithRetry("standard")
  \/ ProcessRecommendationEvent("standard")
  \/ HandleFailedMessage("standard")
  \/ HandleFailedProcessing("standard")
  \/ HandleProcessingError("standard")
  \/ Commit("standard")
  \/ InsertForeign(1)
  \/ ProcessPendingNotifications

SpecResend == Init /\ [][NextResend]_vars /\ WF_vars(ProcessPendingNotifications)

\* ------------------------------------------------------------------------
\* C27
\* ------------------------------------------------------------------------
\* document i was persisted by the event path with emailSent false and its
\* inline mail send failed
UndeliveredByEventPath(i) ==
  /\ i \in DOMAIN store
  /\ store[i].type = "RECOMMENDATION" /\ store[i].emailSent = FALSE
  /\ \E g \in Groups :
       /\ h[g].proc = "rec" /\ "mailError" \in h[g].seen
       /\ h[g].records # <<>> /\ h[g].records[1] = store[i]

\* a run of the sweep has selected document i and started its send
ResendAttempted(i) == i \in cron.rec.inFlight \cup cron.rec.settled

\* C27: the periodic sweep of the recommendation processor resends
\* persisted-but-undelivered notifications: every recommendation record
\* that the event path persisted with emailSent false and whose inline mail
\* send failed is eventually selected by a run of the sweep and its send is
\* attempted again.
C27_UndeliveredIsResent ==
  \A i \in 1..(MaxMsgs + 1) : UndeliveredByEventPath(i) ~> ResendAttempted(i)

\* ------------------------------------------------------------------------
\* C28
\* ------------------------------------------------------------------------
\* the sends of the run that have started
SendsStarted == cron.rec.inFlight \cup cron.rec.settled

\* the batch (from 0) of the k-th document of the run
BatchOf(k) == (k - 1) \div RecConcurrencyLimit

\* C28: one run of the recommendation sweep handles at most 10 pending
\* records, in consecutive batches of at most 5: at most 5 sends are in
\* flight at any time; a send of a later batch has started only when every
\* send of every earlier batch has settled; and a failed send does not abort
\* the other sends: the run is over only when the send of every record it
\* selected has settled.
C28_SweepBoundedAndBatched ==
  LET run == cron.rec IN
  /\ Len(run.pending) <= RecSweepLimit
  /\ Cardinality(run.inFlight) <= RecConcurrencyLimit
  /\ run.inFlight \cap run.settled = {}
  /\ SendsStarted \subseteq Elems(run.pending)
  /\ \A j, k \in DOMAIN run.pending :
       (BatchOf(j) < BatchOf(k) /\ run.pending[k] \in SendsStarted)
         => run.pending[j] \in run.settled
  /\ run.pc = "idle" => (run.inFlight = {} /\ run.settled = Elems(run.pending))

\* C28 witness: 12 documents were pending; a run took 10 of them in two
\* batches, some sends failed, and every send of the run has settled.
C28_Witness ==
  /\ Len(store) = 12
  /\ cron.rec.pc = "idle"
  /\ Len(cron.rec.pending) = RecSweepLimit
  /\ cron.rec.batch = 2
  /\ cron.rec.failed # {}
  /\ cron.rec.settled = Elems(cron.rec.pending)

\* ------------------------------------------------------------------------
\* ProductEventProcessor: the periodic sweep (sendRandomUserNotifications)
\* ------------------------------------------------------------------------
\* RANDOM_USERS_COUNT
RandomUsersCount == 10

\* runs of the sweep that are followed
MaxPromoRuns == 2

\* The list the users service answers with: eleven users with a well-formed
\* email who take promotions (the preference of the last one is not set),
\* one whose email is not well-formed and one who has set promotions to
\* false.
UsersServiceResult ==
  {[id |-> u, email |-> "valid", promotions |-> "true"] :
     u \in {"p01", "p02", "p03", "p04", "p05", "p06", "p07", "p08", "p09", "p10"}}
    \cup {[id |-> "p11", email |-> "valid", promotions |-> "undefined"],
          [id |-> "p12", email |-> "invalid", promotions |-> "true"],
          [id |-> "p13", email |-> "valid", promotions |-> "false"]}

\* isValidEmail: the text matches /^[^\s@]+@[^\s@]+\.[^\s@]+$/
IsValidEmail(email) == email = "valid"

\* Variant of Promotable: every user of the list is taken.
PromotableAny(user) == TRUE

\* the filter of getRandomUsers
Promotable(user) == IsValidEmail(user.email) /\ user.promotions # "false"

\* .sort(() => 0.5 - Math.random()).slice(0, count): any count of the
\* filtered users, all of them when there are no more than count
RandomSamples(users, count) ==
  {S \in SUBSET users :
     Cardinality(S) = (IF Cardinality(users) < count THEN Cardinality(users) ELSE count)}

RECURSIVE SeqOfSet(_)
\* the elements of a set in some order
SeqOfSet(S) == IF S = {} THEN <<>>
               ELSE LET x == CHOOSE y \in S : TRUE IN <<x>> \o SeqOfSet(S \ {x})

\* the cron schedule fires: sendRandomUserNotifications asks for the users
PromoSweepFire ==
  /\ cron.promo.pc = "idle"
  /\ cron.promo.runs < MaxPromoRuns
  /\ cron' = [cron EXCEPT !.promo = [IdlePromoSweep EXCEPT !.pc = "fetch",
                                                           !.runs = cron.promo.runs + 1]]
  /\ UNCHANGED <<h, store, dlq, committed, delivered, conn, boot>>

\* getRandomUsers answers: a failure of the request (or a missing URL) is
\* rethrown, logged by the run and by the scheduled callback, and the run is
\* over; an empty sample ends the run; otherwise one
\* createNotificationForEvent per sampled user is started
PromoSweepSample ==
  /\ cron.promo.pc = "fetch"
  /\ \E answer \in {"error", "empty", "users"} :
       IF answer = "error"
         THEN cron' = [cron EXCEPT !.promo = [@ EXCEPT !.pc = "idle", !.error = TRUE]]
       ELSE IF answer = "empty"
         THEN cron' = [cron EXCEPT !.promo = [@ EXCEPT !.pc = "idle"]]
       ELSE \E S \in RandomSamples({u \in UsersServiceResult : Promotable(u)},
                                   RandomUsersCount) :
              cron' = [cron EXCEPT !.promo = [@ EXCEPT !.pc = "creating", !.users = S]]
  /\ UNCHANGED <<h, store, dlq, committed, delivered, conn, boot>>

\* Promise.all over the creations has settled: each sampled user's document
\* is created unless its Notification.create rejects (here: none, or that of
\* one user), and the promotional mail is sent for each created document,
\* its failure logged and swallowed.  A rejected creation rejects the run,
\* which is logged; the other creations are not undone.
PromoSweepCreate ==
  /\ cron.promo.pc = "creating"
  /\ \E failedSet \in {{}} \cup {{u} : u \in cron.promo.users} :
       LET made == SeqOfSet({u.id : u \in cron.promo.users \ failedSet})
           recs == [k \in DOMAIN made |->
                      NotificationRecord(made[k], "email", "PROMOTION", "standard", FALSE, 0)]
       IN /\ store' = store \o recs
          /\ cron' = [cron EXCEPT !.promo = [@ EXCEPT !.pc = "idle",
                                                      !.created = made,
                                                      !.mailed = Elems(made),
                                                      !.error = (failedSet # {})]]
  /\ UNCHANGED <<h, dlq, committed, delivered, conn, boot>>

SendRandomUserNotifications ==
  \/ PromoSweepFire
  \/ PromoSweepSample
  \/ PromoSweepCreate

SpecPromoSweep == Init /\ [][SendRandomUserNotifications]_vars

\* ------------------------------------------------------------------------
\* C29
\* ------------------------------------------------------------------------
\* the ids of the users of the list with a well-formed email whose
\* promotions preference is not false
WellFormedNotOptedOut ==
  {u.id : u \in {x \in UsersServiceResult : x.email = "valid" /\ x.promotions # "false"}}

\* C29: each run of the catalog processor's sweep, which takes its users
\* from the users service and nothing from the event stream, is bounded: it
\* creates promotion records of priority standard for at most 10 users, only for users with a well-formed email
\* whose promotions preference is not false, at most one record per sampled
\* user per run; a failure in the sweep triggers no retry and publishes
\* nothing to the dead-letter topic.
C29_PromoSweepBounded ==
  LET run == cron.promo IN
  /\ Cardinality(run.users) <= RandomUsersCount
  /\ Len(run.created) <= Cardinality(run.users)
  /\ \A j, k \in DOMAIN run.created : run.created[j] = run.created[k] => j = k
  /\ Elems(run.created) \subseteq {u.id : u \in run.users}
  /\ Len(store) <= run.runs * RandomUsersCount
  /\ \A i \in DOMAIN store :
       /\ store[i].type = "PROMOTION" /\ store[i].priority = "standard"
       /\ store[i].userId \in WellFormedNotOptedOut
  /\ run.error => (run.pc = "idle" /\ Len(run.created) < RandomUsersCount)
  /\ dlq = <<>>

\* C29 witness: a second run whose sample had 10 users, where one creation
\* failed: nine records of the run, nothing retried, nothing dead-lettered.
C29_Witness ==
  /\ cron.promo.runs = 2 /\ cron.promo.pc = "idle"
  /\ cron.promo.error
  /\ Cardinality(cron.promo.users) = RandomUsersCount
  /\ Len(cron.promo.created) = RandomUsersCount - 1
  /\ Len(store) >= RandomUsersCount
  /\ dlq = <<>>

\* ------------------------------------------------------------------------
\* C30
\* ------------------------------------------------------------------------
\* the mail transport was called for the record of this handling and
\* accepted the mail
MailSucceeded(hh) == hh.mailCalls >= 1 /\ "mailError" \notin hh.seen

\* C30: after the mail attempt for a persisted notification the delivery
\* state of the record is reconciled with the outcome, for every processor:
\* the stored record has emailSent true if the mail transport succeeded for
\* it and false otherwise.
C30_EmailSentReconciled ==
  \A g \in Groups :
    LET hh == h[g] IN
    (hh.mailCalls >= 1 /\ hh.records # <<>>) =>
      LET rec == hh.records[Len(hh.records)] IN
      /\ InStore(rec)
      /\ rec.emailSent = MailSucceeded(hh)

\* ------------------------------------------------------------------------
\* C31
\* ------------------------------------------------------------------------
\* C31: in every retry chain of every processor, under any failure pattern
\* of identity lookup, store write and mail transport, at most one
\* notification record is created, and once a record has been created no
\* further attempt of the chain is made (the handling only resolves);
\* whenever a processor has returned false, its chain created no record.
C31_AtMostOneRecordPerChain ==
  [][\A g \in Groups :
       /\ Len(h'[g].records) <= 1
       /\ h'[g].returned = "false" => h'[g].records = <<>>
       /\ h'[g].records # <<>> =>
            /\ h'[g].returned = "true"
            /\ \E i \in DOMAIN store' : store'[i] = h'[g].records[1]
       /\ h[g].records # <<>> =>
            (h'[g] = h[g] \/ (h[g].pc = "done" /\ h'[g] = IdleHandler))
    ]_vars

\* C31 witness: a chain that failed twice on the store and created its one
\* record on the third attempt.
C31_Witness ==
  \E g \in Groups :
    /\ h[g].attempts = 3 /\ h[g].storeErrs = 2
    /\ Len(h[g].records) = 1 /\ h[g].pc = "done"

\* ------------------------------------------------------------------------
\* C32: bound on the dead-letter publishes of one handling
\* ------------------------------------------------------------------------
PublishAttempts(hh, by) == {i \in DOMAIN hh.pubs : hh.pubs[i].by = by}

SuccessfulPublishes(hh) == {i \in DOMAIN hh.pubs : hh.pubs[i].ok}

\* C32: while one consumed message is handled, whatever the processor and
\* the publisher do, at most three publishes are attempted (at most one by
\* the processor's escalation, then at most one by handleFailedProcessing,
\* then at most one by handleProcessingError), at most two of them succeed,
\* every one carries the key topic-partition-offset of the message, and
\* every successful one is an envelope on the dead-letter topic.
C32_PublishesPerMessageBounded ==
  \A g \in Groups :
    LET hh == h[g] IN
      /\ Len(hh.pubs) <= 3
      /\ Cardinality(SuccessfulPublishes(hh)) <= 2
      /\ \A by \in {"processor", "router", "routerCatch"} :
           Cardinality(PublishAttempts(hh, by)) <= 1
      /\ \A i, j \in DOMAIN hh.pubs :
           /\ hh.pubs[i].by \in {"processor", "router", "routerCatch"}
           /\ hh.pubs[i].env.topic = DLQ_TOPIC
           /\ hh.pubs[i].env.key =
                MessageKey(hh.msg.topic, hh.msg.partition, hh.msg.offset)
           /\ (i < j /\ hh.pubs[j].by = "processor") => FALSE
           /\ (i < j /\ hh.pubs[j].by = "router") => hh.pubs[i].by = "processor"
           /\ hh.pubs[i].ok => \E k \in DOMAIN dlq : dlq[k] = hh.pubs[i].env

C32_Witness ==
  \E g \in Groups :
    /\ Len(h[g].pubs) = 3
    /\ Cardinality(SuccessfulPublishes(h[g])) = 2
    /\ h[g].pubs[1].by = "processor" /\ h[g].pubs[1].ok
    /\ h[g].pubs[2].by = "router" /\ ~h[g].pubs[2].ok
    /\ h[g].pubs[3].by = "routerCatch" /\ h[g].pubs[3].ok

\* ------------------------------------------------------------------------
\* C33: the router's own envelope after a false result
\* ------------------------------------------------------------------------
\* the router has acted on the processor's false result
RouterActedOnFalse(hh) ==
  hh.returned = "false" /\ hh.pc \in {"done", "caught", "thrown"}

\* the publish handleFailedProcessing makes for the message handled by g
IsGenericPublish(g, pub) ==
  /\ pub.by = "router"
  /\ pub.env.value.metadata.reason = ProcessingFailedReason(g)
  /\ Base64Decode(pub.env.value.originalMessage) = h[g].msg.value

\* a recommendation event that validateEvent rejects without raising
RecEventRejected(hh) ==
  /\ hh.proc = "rec"
  /\ ~RecValidateEvent(hh.event)
  /\ ~RecValidateEventThrows(hh.event)

\* C33 as stated: whenever a processor has returned false and the router has
\* acted, an envelope with the raw message bytes and the generic reason is on
\* the dead-letter topic; a recommendation event rejected by validation ends
\* with exactly one envelope, which carries the generic reason.
C33_RouterEnvelopeAlwaysPublished ==
  \A g \in Groups :
    RouterActedOnFalse(h[g]) =>
      /\ \E i \in DOMAIN h[g].pubs :
           /\ IsGenericPublish(g, h[g].pubs[i])
           /\ h[g].pubs[i].ok
      /\ (RecEventRejected(h[g]) /\ h[g].pc \in {"done", "thrown"}) =>
           /\ Cardinality(SuccessfulPublishes(h[g])) = 1
           /\ \A i \in SuccessfulPublishes(h[g]) : IsGenericPublish(g, h[g].pubs[i])

\* C33: whenever a processor has returned false and the router has acted, the
\* router has made exactly one publish with the raw message bytes and the
\* generic reason; when the publisher accepts it the envelope is on the
\* dead-letter topic and the handling is done; when the publisher refuses it
\* the catch block makes one more publish, with the raw bytes and the send
\* failure as its reason.  A recommendation event rejected by validation is
\* attempted once, never escalated by the processor, and ends with the
\* generic envelope alone when the first publish is accepted, with the
\* catch block's envelope alone when only the second is, and with none when
\* both are refused.
C33_RouterPublishesGenericEnvelope ==
  \A g \in Groups :
    LET hh == h[g] IN
    RouterActedOnFalse(hh) =>
      /\ \E i \in DOMAIN hh.pubs :
           /\ IsGenericPublish(g, hh.pubs[i])
           /\ PublishAttempts(hh, "router") = {i}
           /\ hh.pubs[i].ok =>
                /\ hh.pc = "done" /\ i = Len(hh.pubs)
                /\ \E k \in DOMAIN dlq : dlq[k] = hh.pubs[i].env
           /\ (~hh.pubs[i].ok /\ hh.pc \in {"done", "thrown"}) =>
                /\ Len(hh.pubs) = i + 1
                /\ hh.pubs[i + 1].by = "routerCatch"
                /\ hh.pubs[i + 1].env.value.metadata.reason = PublishErr
                /\ Base64Decode(hh.pubs[i + 1].env.value.originalMessage) = hh.msg.value
                /\ hh.pubs[i + 1].ok <=> hh.pc = "done"
      /\ RecEventRejected(hh) =>
           /\ hh.attempts = 1
           /\ PublishAttempts(hh, "processor") = {}
           /\ hh.pubs[1].by = "router"
           /\ hh.pc = "done" => Cardinality(SuccessfulPublishes(hh)) = 1
           /\ hh.pc = "thrown" => SuccessfulPublishes(hh) = {}

C33_Witness ==
  /\ RouterActedOnFalse(h["standard"])
  /\ RecEventRejected(h["standard"])
  /\ h["standard"].pc = "done"
  /\ Len(h["standard"].pubs) = 1
  /\ h["standard"].pubs[1].ok
  /\ IsGenericPublish("standard", h["standard"].pubs[1])

\* ------------------------------------------------------------------------
\* C34: the identity lookup fails on every attempt
\* ------------------------------------------------------------------------
\* every attempt made so far reached the identity lookup and the lookup
\* failed each time
LookupFailedOnEveryAttempt(hh) ==
  /\ hh.proc \in {"user", "order", "rec"}
  /\ hh.attempts >= 1
  /\ hh.lookupErrs = hh.attempts

\* the error the failed lookup raises out of the attempt
LookupFailureReason(hh) ==
  IF hh.proc = "rec"
    THEN <<"User data not found for userId: ", hh.event.userId>>
    ELSE Wrap("Notification processing failed: ",
              Wrap("Failed to retrieve user details: ", LookupErr))

\* C34: when the identity lookup fails on every attempt of an account, order
\* or recommendation chain, no store write and no mail call is made and no
\* record is created; the failure is retried with the processor's backoff
\* until the attempt budget is spent (6, 4 and 3 attempts), never ends the
\* chain earlier and never counts as success; after the last attempt the
\* processor hands the event to the dead-letter router with the lookup
\* failure as the reason and returns false.
C34_LookupFailureRetriedThenDeadLettered ==
  \A g \in Groups :
    LET hh == h[g] IN
    LookupFailedOnEveryAttempt(hh) =>
      /\ hh.storeCalls = 0 /\ hh.mailCalls = 0 /\ hh.records = <<>>
      /\ hh.calls = <<"lookup">>
      /\ hh.returned # "true"
      /\ hh.attempts <= AttemptBudget(hh.proc)
      /\ hh.pc \in {hh.proc, "escalate", "returned"} => hh.error = LookupFailureReason(hh)
      /\ \A i \in DOMAIN hh.delays :
           hh.delays[i] = IF hh.proc = "rec"
                            THEN Pow2(i) * RecDelayUnit
                            ELSE Pow2(i - 1) * BaseDelayOf(hh.proc)
      /\ hh.pc = hh.proc =>
           /\ hh.attempts < AttemptBudget(hh.proc)
           /\ Len(hh.delays) = hh.attempts
           /\ hh.pubs = <<>>
      /\ hh.pc # hh.proc =>
           /\ hh.attempts = AttemptBudget(hh.proc)
           /\ Len(hh.delays) = hh.attempts - 1
      /\ hh.pc = "escalate" => hh.pubs = <<>> /\ hh.returned = "none"
      /\ hh.pc \notin {hh.proc, "escalate"} =>
           /\ hh.returned = "false"
           /\ hh.pubs # <<>>
           /\ hh.pubs[1].by = "processor"
           /\ hh.pubs[1].env.value.metadata.reason = LookupFailureReason(hh)
           /\ hh.pubs[1].ok => \E k \in DOMAIN dlq : dlq[k] = hh.pubs[1].env

C34_Witness ==
  /\ LookupFailedOnEveryAttempt(h["critical"])
  /\ h["critical"].proc = "order" /\ h["critical"].attempts = 4
  /\ h["critical"].returned = "false" /\ h["critical"].pubs[1].ok
  /\ LookupFailedOnEveryAttempt(h["standard"])
  /\ h["standard"].proc = "rec" /\ h["standard"].attempts = 3
  /\ h["standard"].returned = "false"

\* ------------------------------------------------------------------------
\* C35: termination of the retry-wrapped entry points
\* ------------------------------------------------------------------------
\* Every awaited collaborator call settles and every backoff timer fires, so
\* a processor that can take its next step takes it.
ProcessorStep(g) ==
  \/ ProcessUserUpdateEventWithRetry(g)
  \/ ProcessOrderUpdateEventWithRetry(g)
  \/ ProcessProductEventWithRetry(g)
  \/ ProcessRecommendationEvent(g)
  \/ HandleFailedMessage(g)

\* the invocations followed from the start of the process
MaxInvocations == 1

NextInvocation ==
  \/ ProcessHighPriorityMessage /\ delivered' <= MaxInvocations
  \/ ProcessStandardPriorityMessage /\ delivered' <= MaxInvocations
  \/ \E g \in Groups : ProcessUserUpdateEventWithRetry(g)
  \/ \E g \in Groups : ProcessOrderUpdateEventWithRetry(g)
  \/ \E g \in Groups : ProcessProductEventWithRetry(g)
  \/ \E g \in Groups : ProcessRecommendationEvent(g)
  \/ \E g \in Groups : HandleFailedMessage(g)
  \/ \E g \in Groups : HandleFailedProcessing(g)
  \/ \E g \in Groups : HandleProcessingError(g)
  \/ \E g \in Groups : Commit(g)

SpecProcessorsProgress ==
  /\ Init /\ [][NextInvocation]_vars
  /\ \A g \in Groups : WF_vars(ProcessorStep(g))

\* the retry-wrapped entry point of a processor has been invoked and has not
\* returned yet
InProcessor(hh) == hh.pc \in {"user", "order", "product", "rec", "escalate"}

\* the entry point has returned its boolean to the router
ReturnedBoolean(hh) ==
  /\ hh.pc \in {"returned", "done"}
  /\ hh.returned \in {"true", "false"}
  /\ hh.attempts >= 1

\* C35: every invocation of a processor's retry-wrapped entry point returns
\* a boolean, given that each collaborator call returns or fails; under any
\* failure pattern it makes at most maxRetries + 1 attempts (account 6,
\* order 4, catalog 6) or at most maxRetries attempts (recommendation 3), and
\* its retryCount never exceeds maxRetries.
C35_RetryEntryPointTerminates ==
  /\ [](\A g \in Groups :
          /\ h[g].retryCount <= MaxRetriesOf(h[g].proc)
          /\ h[g].attempts <= (CASE h[g].proc = "user" -> 6
                                 [] h[g].proc = "order" -> 4
                                 [] h[g].proc = "product" -> 6
                                 [] h[g].proc = "rec" -> 3
                                 [] OTHER -> 0)
          /\ InProcessor(h[g]) => h[g].returned = "none")
  /\ \A g \in Groups : InProcessor(h[g]) ~> ReturnedBoolean(h[g])

C35_Witness ==
  /\ ReturnedBoolean(h["critical"]) /\ h["critical"].returned = "true"
  /\ h["critical"].proc = "user" /\ h["critical"].attempts = 6
  /\ h["critical"].retryCount = UserMaxRetries
  /\ Len(h["critical"].delays) = UserMaxRetries

\* ------------------------------------------------------------------------
\* C36: dispatch after shutdown
\* ------------------------------------------------------------------------
\* handleShutdown has run: the store connection and the shared producer are
\* closed
ShutdownCompleted == ~conn.mongoose /\ ~conn.producer

\* C36: once the shutdown handler has completed, neither the critical nor
\* the standard consumer hands a further message to the router and its
\* processors.
C36_NoDispatchAfterShutdown ==
  [][ShutdownCompleted =>
       ~(ProcessHighPriorityMessage \/ ProcessStandardPriorityMessage)]_vars

\* ------------------------------------------------------------------------
\* Start of the process (index.ts)
\* ------------------------------------------------------------------------
InitStartup ==
  /\ h = [g \in Groups |-> IdleHandler]
  /\ store = <<>>
  /\ dlq = <<>>
  /\ committed = [t \in Topics \cup {UnroutedTopic} |-> [p \in Partitions |-> StartOffset]]
  /\ delivered = 0
  /\ conn = [mongoose |-> FALSE, producer |-> FALSE, underway |-> {}]
  /\ cron = IdleCron
  /\ boot = BootLoading

\* the import of NotificationEventProcessor evaluates the module, whose last
\* statement constructs the exported notificationProcessorService
LoadModules ==
  /\ boot.pc = "load"
  /\ boot' = [ConstructService(boot) EXCEPT !.pc = "mongoose"]
  /\ UNCHANGED <<h, store, dlq, committed, delivered, conn, cron>>

\* the catch block of startServer: handleShutdown(error) closes the store
\* connection and disconnects the shared producer and the shared consumer;
\* allSettled does not reject, so the process does not exit and a priority
\* consumer already running keeps running
StartupFailed(cause) ==
  /\ boot' = [boot EXCEPT !.pc = "failed", !.cause = cause]
  /\ conn' = [mongoose |-> FALSE, producer |-> FALSE,
              underway |-> {g \in Groups : InChain(h[g])}]

\* setupConnections: await mongoose.connect(...)
ConnectMongoose ==
  /\ boot.pc = "mongoose"
  /\ \/ /\ boot' = [boot EXCEPT !.pc = "producer"]
        /\ conn' = [conn EXCEPT !.mongoose = TRUE]
     \/ StartupFailed("mongoose")
  /\ UNCHANGED <<h, store, dlq, committed, delivered, cron>>

\* setupConnections: await producer.connect()
ConnectProducer ==
  /\ boot.pc = "producer"
  /\ \/ /\ boot' = [boot EXCEPT !.pc = "consumer"]
        /\ conn' = [conn EXCEPT !.producer = TRUE]
     \/ StartupFailed("producer")
  /\ UNCHANGED <<h, store, dlq, committed, delivered, cron>>

\* setupConnections: await consumer.connect(), the shared consumer that is
\* never subscribed
ConnectConsumer ==
  /\ boot.pc = "consumer"
  /\ \/ /\ boot' = [boot EXCEPT !.pc = "construct"]
        /\ conn' = conn
     \/ StartupFailed("consumer")
  /\ UNCHANGED <<h, store, dlq, committed, delivered, cron>>

\* initializeNotificationProcessor: new NotificationProcessorService()
InitializeNotificationProcessor ==
  /\ boot.pc = "construct"
  /\ boot' = [ConstructService(boot) EXCEPT !.pc = "high"]
  /\ UNCHANGED <<h, store, dlq, committed, delivered, conn, cron>>

\* setupHighPriorityConsumer: connect, subscribe, run
SetupHighPriorityConsumer ==
  /\ boot.pc = "high"
  /\ \/ /\ boot' = [boot EXCEPT !.pc = "standard", !.started = @ \cup {"critical"}]
        /\ conn' = conn
     \/ StartupFailed("high")
  /\ UNCHANGED <<h, store, dlq, committed, delivered, cron>>

\* setupStandardPriorityConsumer: connect, subscribe, run
SetupStandardPriorityConsumer ==
  /\ boot.pc = "standard"
  /\ \/ /\ boot' = [boot EXCEPT !.pc = "up", !.started = @ \cup {"standard"}]
        /\ conn' = conn
     \/ StartupFailed("standard")
  /\ UNCHANGED <<h, store, dlq, committed, delivered, cron>>

\* the five-minute interval elapses: every registered schedule of a sweep
\* calls its callback
CronTick ==
  /\ boot.fired # boot.schedules
  /\ boot' = [boot EXCEPT !.fired = boot.schedules]
  /\ UNCHANGED <<h, store, dlq, committed, delivered, conn, cron>>

NextStartup ==
  \/ LoadModules
  \/ ConnectMongoose
  \/ ConnectProducer
  \/ ConnectConsumer
  \/ InitializeNotificationProcessor
  \/ SetupHighPriorityConsumer
  \/ SetupStandardPriorityConsumer
  \/ CronTick
  \/ /\ "critical" \in boot.started
     /\ ProcessHighPriorityMessage /\ delivered' <= MaxInvocations
  \/ /\ "standard" \in boot.started
     /\ ProcessStandardPriorityMessage /\ delivered' <= MaxInvocations
  \/ \E g \in Groups : ProcessUserUpdateEventWithRetry(g)
  \/ \E g \in Groups : ProcessOrderUpdateEventWithRetry(g)
  \/ \E g \in Groups : ProcessProductEventWithRetry(g)
  \/ \E g \in Groups : ProcessRecommendationEvent(g)
  \/ \E g \in Groups : HandleFailedMessage(g)
  \/ \E g \in Groups : HandleFailedProcessing(g)
  \/ \E g \in Groups : HandleProcessingError(g)
  \/ \E g \in Groups : Commit(g)

SpecStartup == InitStartup /\ [][NextStartup]_vars

\* ------------------------------------------------------------------------
\* C37: one schedule per sweep
\* ------------------------------------------------------------------------
\* C37: each periodic sweep (catalog promotional sweep, recommendation
\* resend sweep) has at most one schedule registered in the process, and an
\* interval calls the callback of each sweep at most once.
C37_OneSchedulePerSweep ==
  \A s \in Sweeps : boot.schedules[s] <= 1 /\ boot.fired[s] <= 1

\* ------------------------------------------------------------------------
\* C38: the shared producer at startup
\* ------------------------------------------------------------------------
\* the shared producer has been connected by setupConnections
ProducerWasConnected == boot.pc \notin {"load", "mongoose", "producer"}

\* C38: a priority consumer hands a message to the router only after the
\* shared producer was connected; every dead-letter publish is attempted on
\* a connected producer; when connecting the store or the producer fails,
\* no priority consumer is started.
C38_PublisherConnectedBeforeDispatch ==
  [][/\ (ProcessHighPriorityMessage \/ ProcessStandardPriorityMessage)
          => ProducerWasConnected /\ boot.cause \notin {"mongoose", "producer"}
     /\ \A g \in Groups : Len(h'[g].pubs) > Len(h[g].pubs) => conn.producer
     /\ boot'.cause \in {"mongoose", "producer"} => boot'.started = {}
    ]_vars
====
